---- MODULE Spec2Model ----
(***************************************************************************)
(* MarketingMix AI (zbailey83/pdfz): the premium analytics routes of the   *)
(* backend API, the attribution job queue of the ML service they call,     *)
(* and the Redis response cache in front of the metrics store.             *)
(*                                                                         *)
(* The module holds several specifications over one set of variables; a    *)
(* specification moves only the variables of its own subsystem:            *)
(*   SpecJobs  - attribution jobs: submit, claim, complete/fail, TTL,      *)
(*               the GET /models/attribution/:id route and its poller;     *)
(*   SpecStatus- the status route over a clock that outlives the results;  *)
(*   LiveJobs  - the steps of SpecJobs with the fairness of the clock and  *)
(*               the poller;                                               *)
(*   SpecApi   - the forecast and optimizer routes, one request at a time; *)
(*   SpecCache - uploads and cached reads of two accounts, step by step,   *)
(*               over a Redis whose commands may fail;                     *)
(*   SpecCacheUp - concurrent uploads and summary reads of one account     *)
(*               over a Redis that never fails;                            *)
(*   SpecMetrics - concurrent uploads whose rows share keys;               *)
(*   SpecValidation - the validation functions of utils/validation.ts,     *)
(*               one call at a time;                                       *)
(*   SpecGate  - the four premium routes side by side;                     *)
(*   SpecIsolation - summaries and upload records of two accounts;         *)
(*   SpecFreeTier - uploads of large CSVs by a free and a premium account; *)
(*   SpecOptimizer - the Optimizer page, the optimizer route and           *)
(*               run_optimizer, one submission at a time;                  *)
(*   SpecOptimizerPage - the constraint fields of the Optimizer page;      *)
(*   SpecChannels - POST /data/map and normalizeChannel;                   *)
(*   SpecPartial - uploads of CSVs with valid and invalid rows;            *)
(*   SpecRowLimit - the free tier check on the text of a file;             *)
(*   SpecUploadStatus - upload records over a database that may fail;      *)
(*   SpecSignup - concurrent signups;                                      *)
(*   SpecShowcase - the PDF showcase (App.tsx) and its object URLs;        *)
(*   SpecViewer - the PDF viewer modal and its page;                       *)
(*   LiveWait  - waitForPdfJs with the timeouts that fire.                 *)
(***************************************************************************)
EXTENDS Integers, Sequences, FiniteSets, TLC

VARIABLES
  now,        \* the clock, in days
  jobs,       \* ML service job records; a job's id is its index
  queue,      \* the Redis list of queued job ids
  holding,    \* per worker: the job it is processing, 0 for none
  results,    \* rows of the attribution_results table
  pageJob,    \* Attribution page, per account: its jobId state, 0 for null
  observed,   \* Attribution page, per account: status of its query data
  lastResp,   \* the last answer of an attribution route
  apiReq,     \* the forecast or optimizer request being answered
  apiResp,    \* its answer, with what was sent on to the ML service
  metrics,    \* per account: rows of marketing_daily_metrics
  commits,    \* per account: uploads committed to the metrics table so far
  acked,      \* per account: the commit of the last upload answered success
  cache,      \* the entries Redis holds
  rd,         \* per reader: the GET request it is serving
  up,         \* per uploader: the POST /uploads/csv request it is serving
  uploads,    \* rows of the csv_uploads table; a row's id is its index
  fnCall,     \* the call of a validation function being examined
  minSpend,   \* Optimizer page: the minimum field of every channel edited
  maxSpend,   \* Optimizer page: the maximum field of every channel edited
  pdfs,       \* PDF showcase: the PdfFile list of App
  selectedPdf, \* PDF showcase: the id of the PDF in the viewer, or none
  created,    \* PDF showcase: object URLs created so far
  revoked,    \* PDF showcase: the object URLs revoked
  mounted,    \* PDF showcase: is App mounted
  channelMap, \* rows of the channel_normalization table
  accountsTable,   \* rows of the accounts table, in the order of their creation
  su,         \* per client: its signup request in flight
  modalOpen,  \* PdfCarouselModal is mounted
  pdfFile,    \* the pages of the file the modal shows, 0 for a file pdf.js cannot read
  pdfDoc,     \* viewer state: pages of the loaded document, 0 for null
  currentPage, \* viewer state
  totalPages, \* viewer state
  isLoading,  \* viewer state
  error,      \* viewer state
  pdfjsLib,   \* window.pdfjsLib is set
  promise,    \* the promise of waitForPdfJs
  retries,    \* waitForPdfJs: its counter
  timer,      \* waitForPdfJs: a check is scheduled with setTimeout
  elapsed,    \* milliseconds since waitForPdfJs was called
  settles     \* calls of resolve and reject

jobVars == <<now, jobs, queue, holding, results, pageJob, observed, lastResp>>
apiVars == <<apiReq, apiResp>>
cacheVars == <<metrics, commits, acked, cache, rd, up, uploads>>
fnVars == <<fnCall>>
pageVars == <<minSpend, maxSpend>>
showcaseVars == <<pdfs, selectedPdf, created, revoked, mounted>>
mapVars == <<channelMap>>
signupVars == <<accountsTable, su>>
viewerVars == <<modalOpen, pdfFile, pdfDoc, currentPage, totalPages, isLoading, error>>
waitVars == <<pdfjsLib, promise, retries, timer, elapsed, settles>>

vars == <<jobVars, apiVars, cacheVars, fnVars, pageVars, showcaseVars, mapVars, signupVars, viewerVars, waitVars>>

\* What the actions of one subsystem leave alone.
notJobVars == <<apiVars, cacheVars, fnVars, pageVars, showcaseVars, mapVars, signupVars, viewerVars, waitVars>>
notApiVars == <<jobVars, cacheVars, fnVars, pageVars, showcaseVars, mapVars, signupVars, viewerVars, waitVars>>
notCacheVars == <<jobVars, apiVars, fnVars, pageVars, showcaseVars, mapVars, signupVars, viewerVars, waitVars>>
notFnVars == <<jobVars, apiVars, cacheVars, pageVars, showcaseVars, mapVars, signupVars, viewerVars, waitVars>>
notPageVars == <<jobVars, apiVars, cacheVars, showcaseVars, mapVars, signupVars, viewerVars, waitVars>>
notShowcaseVars == <<jobVars, apiVars, cacheVars, fnVars, pageVars, mapVars, signupVars, viewerVars, waitVars>>
notMapVars == <<jobVars, apiVars, cacheVars, fnVars, pageVars, showcaseVars, signupVars, viewerVars, waitVars>>
notSignupVars == <<jobVars, apiVars, cacheVars, fnVars, pageVars, showcaseVars, mapVars, viewerVars, waitVars>>
notViewerVars == <<jobVars, apiVars, cacheVars, fnVars, pageVars, showcaseVars, mapVars, signupVars, waitVars>>
notWaitVars == <<jobVars, apiVars, cacheVars, fnVars, pageVars, showcaseVars, mapVars, signupVars, viewerVars>>

(***************************************************************************)
(* Bounds of the model and constants of the program.                       *)
(***************************************************************************)
MaxJobs == 2         \* jobs ever submitted, SpecJobs
MaxTime == 1         \* last day of the clock, SpecJobs
MaxStatusJobs == 1   \* jobs ever submitted, SpecStatus and LiveJobs
MaxStatusTime == 8   \* last day of the clock, SpecStatus

JobTtlDays == 1
ResultTtlDays == 7
MinAttributionDays == 60

Accounts == {"a1", "a2", "a3"}
Workers == {"w1", "w2"}
ResultVals == {"r1", "r2"}

\* The tier claim of the caller's verified JWT.
Tier(a) == IF a = "a3" THEN "free" ELSE "premium"

\* A gate that lets every authenticated caller through.
RequirePremiumOpen(caller) == TRUE

\* requirePremium: does the middleware call next()?  It answers 403 itself
\* otherwise, and the handler after it never runs.
RequirePremium(caller) == Tier(caller) = "premium"

\* Distinct days of metrics the data store holds for an account.
UniqueDays(a) == IF a = "a1" THEN 10 ELSE 90

Terminal == {"completed", "failed"}
NonTerminal == {"pending", "processing"}

NoData == [job |-> 0, account |-> "none", result |-> "none"]

(***************************************************************************)
(* ML service: the job store and queue (ml/services/job_queue.py).         *)
(***************************************************************************)
Exists(id) == id \in 1..Len(jobs)

Expired(id) == now - jobs[id].created_at >= JobTtlDays

\* An expired pending/processing job is treated as failed.
EffectiveStatus(id) ==
  IF Expired(id) /\ jobs[id].status \in NonTerminal
    THEN "failed"
    ELSE jobs[id].status

\* The non-terminal jobs of an account.
ActiveJobs(a) ==
  {id \in 1..Len(jobs) : jobs[id].account = a /\ EffectiveStatus(id) \in NonTerminal}

NewJob(a) ==
  [account |-> a, status |-> "pending", created_at |-> now,
   result |-> "none", error |-> "none"]

HasActiveJobNever(a) == FALSE

\* submit: does the account already have a non-terminal job?
HasActiveJob(a) == ActiveJobs(a) # {}

\* submit: the id it returns, the existing job's if there is one.
SubmitReturns(a) ==
  IF HasActiveJob(a)
    THEN CHOOSE id \in ActiveJobs(a) : TRUE
    ELSE Len(jobs) + 1

SubmitJobs(a) ==
  IF HasActiveJob(a) THEN jobs ELSE Append(jobs, NewJob(a))

SubmitQueue(a) ==
  IF HasActiveJob(a) THEN queue ELSE Append(queue, Len(jobs) + 1)

\* A claim that reads the head of the queue and marks it, without taking it
\* off the queue or looking at its status.
ClaimRacy(w) ==
  [queue |-> queue,
   jobs |-> [jobs EXCEPT ![Head(queue)].status = "processing"],
   holding |-> [holding EXCEPT ![w] = Head(queue)]]

\* claim_next by worker w, one atomic step: the head of the queue is taken
\* off the queue and, if it is still pending, becomes processing and w's.
Claim(w) ==
  IF EffectiveStatus(Head(queue)) = "pending"
    THEN [queue |-> Tail(queue),
          jobs |-> [jobs EXCEPT ![Head(queue)].status = "processing"],
          holding |-> [holding EXCEPT ![w] = Head(queue)]]
    ELSE [queue |-> Tail(queue), jobs |-> jobs, holding |-> holding]

\* complete / fail act on a processing job only.
CanFinish(id) == Exists(id) /\ EffectiveStatus(id) = "processing"

CompleteAlways(id, r) ==
  [jobs EXCEPT ![id].status = "completed", ![id].result = r]

Complete(id, r) ==
  IF CanFinish(id)
    THEN [jobs EXCEPT ![id].status = "completed", ![id].result = r]
    ELSE jobs

Fail(id, e) ==
  IF CanFinish(id)
    THEN [jobs EXCEPT ![id].status = "failed", ![id].error = e]
    ELSE jobs

\* save_attribution: one row per job, expiring after 7 days.
SaveAttribution(id, r) ==
  IF CanFinish(id) /\ ~(\E row \in results : row.id = id)
    THEN results \cup {[id |-> id, account_id |-> jobs[id].account, result |-> r,
                        has_expiry |-> TRUE, expires_at |-> now + ResultTtlDays]}
    ELSE results

\* GET /attribution/{job_id} of the ML service.
MlGetStatus(id) ==
  IF ~Exists(id)
    THEN [http |-> 404, status |-> "none", data |-> NoData, message |-> "not found"]
  ELSE IF Expired(id)
    THEN IF jobs[id].status \in NonTerminal
           THEN [http |-> 200, status |-> "failed", data |-> NoData,
                 message |-> "timeout"]
           ELSE [http |-> 404, status |-> "none", data |-> NoData,
                 message |-> "not found"]
  ELSE [http |-> 200, status |-> jobs[id].status,
        data |-> IF jobs[id].status = "completed"
                   THEN [job |-> id, account |-> jobs[id].account,
                         result |-> jobs[id].result]
                   ELSE NoData,
        message |-> jobs[id].error]

(***************************************************************************)
(* Backend: routes/models.ts.                                              *)
(***************************************************************************)
\* SELECT * FROM attribution_results WHERE account_id = $1 AND id = $2
\*   AND (expires_at IS NULL OR expires_at > NOW())
StoredLookupAnyAge(caller, id) ==
  {row \in results : row.account_id = caller /\ row.id = id}

StoredLookup(caller, id) ==
  {row \in results : /\ row.account_id = caller
                     /\ row.id = id
                     /\ (~row.has_expiry \/ row.expires_at > now)}

RowData(row) == [job |-> row.id, account |-> row.account_id, result |-> row.result]

\* A status route that answers every unfinished read as processing.
MlStatusAnswerStuck(id) ==
  LET ml == MlGetStatus(id) IN
  IF ml.http # 200
    THEN [http |-> 502, status |-> "error", path |-> "ml", data |-> NoData,
          message |-> "ML service unavailable"]
  ELSE IF ml.status = "completed" /\ ml.data # NoData
    THEN [http |-> 200, status |-> "success", path |-> "ml", data |-> ml.data,
          message |-> "none"]
  ELSE [http |-> 200, status |-> "processing", path |-> "ml", data |-> NoData,
        message |-> ml.message]

\* The status route's answer once the stored lookup has missed.
MlStatusAnswer(id) ==
  LET ml == MlGetStatus(id) IN
  IF ml.http # 200
    THEN [http |-> 502, status |-> "error", path |-> "ml", data |-> NoData,
          message |-> "ML service unavailable"]
  ELSE IF ml.status = "completed" /\ ml.data # NoData
    THEN [http |-> 200, status |-> "success", path |-> "ml", data |-> ml.data,
          message |-> "none"]
  ELSE [http |-> 200, status |-> ml.status, path |-> "ml", data |-> NoData,
        message |-> ml.message]

\* The catch block of the attribution routes when the ML service cannot be
\* reached: axios rejects with an error that has no response.
MlUnreachable ==
  [http |-> 502, status |-> "error", path |-> "ml", data |-> NoData,
   message |-> "ML service unavailable"]

\* GET /api/v1/models/attribution/:id
GetAttribution(caller, id) ==
  IF ~RequirePremium(caller)
    THEN [http |-> 403, status |-> "error", path |-> "gate", data |-> NoData,
          message |-> "Premium feature"]
  ELSE IF StoredLookup(caller, id) # {}
    THEN [http |-> 200, status |-> "success", path |-> "stored",
          data |-> RowData(CHOOSE row \in StoredLookup(caller, id) : TRUE),
          message |-> "none"]
  ELSE MlStatusAnswer(id)

Answer(op, caller, id, resp) ==
  [op |-> op, caller |-> caller, id |-> id, http |-> resp.http,
   status |-> resp.status, path |-> resp.path, data |-> resp.data]

\* No answer is in flight.
NoResp ==
  [op |-> "none", caller |-> "none", id |-> 0, http |-> 0,
   status |-> "none", path |-> "none", data |-> NoData]

(***************************************************************************)
(* Frontend: pages/Attribution.tsx.                                        *)
(***************************************************************************)
\* queryFn: the status the query data carries after an answer; an HTTP error
\* rejects the query and leaves its data as it was.
QueryStatus(resp, prev) ==
  IF resp.http # 200 THEN prev
  ELSE IF resp.status = "success" /\ resp.data # NoData THEN "completed"
  ELSE resp.status

PollIntervalMs == 2000

\* A refetchInterval that never returns false.
RefetchIntervalAlways(status) == PollIntervalMs

\* refetchInterval: false (0 here) once the data is completed or failed,
\* 2000 ms otherwise.
RefetchInterval(status) == IF status \in Terminal THEN 0 ELSE PollIntervalMs

\* The query is enabled (!!jobId) and its interval timer is running.
RefetchActive(a) == pageJob[a] # 0 /\ RefetchInterval(observed[a]) # 0

\* The page shows what a status read returns now.
UpToDate(a) ==
  observed[a] = QueryStatus(GetAttribution(a, pageJob[a]), observed[a])

\* The run button (rendered for premium users only).
ButtonEnabled(a) == Tier(a) = "premium" /\ observed[a] # "processing"


(***************************************************************************)
(* Request values: query strings and JSON bodies, and JavaScript's         *)
(* conversions of them.                                                    *)
(***************************************************************************)
MaxLen == 3          \* characters of a query or body string

Digits == {"0", "6", "7", "9"}
Chars == Digits \cup {"-", " ", "a"}

Texts == UNION {[1..n -> Chars] : n \in 0..MaxLen}

DigitVal(c) ==
  CASE c = "0" -> 0 [] c = "1" -> 1 [] c = "2" -> 2 [] c = "3" -> 3
    [] c = "4" -> 4 [] c = "5" -> 5 [] c = "6" -> 6 [] c = "7" -> 7
    [] c = "8" -> 8 [] c = "9" -> 9

\* A JavaScript number: NaN, or an integer.
NaN == [nan |-> TRUE, val |-> 0]
Num(v) == [nan |-> FALSE, val |-> v]

RECURSIVE SkipSpaces(_)
SkipSpaces(s) ==
  IF s # <<>> /\ Head(s) = " " THEN SkipSpaces(Tail(s)) ELSE s

RECURSIVE DigitPrefix(_)
DigitPrefix(s) ==
  IF s # <<>> /\ Head(s) \in Digits
    THEN <<Head(s)>> \o DigitPrefix(Tail(s))
    ELSE <<>>

RECURSIVE DigitsValue(_, _)
DigitsValue(s, acc) ==
  IF s = <<>> THEN acc ELSE DigitsValue(Tail(s), 10 * acc + DigitVal(Head(s)))

\* parseInt(text): leading white space is skipped, then an optional sign and
\* the longest run of digits are read; NaN if there is no digit.
ParseInt(s) ==
  LET t == SkipSpaces(s)
      neg == t # <<>> /\ Head(t) = "-"
      body == IF neg THEN Tail(t) ELSE t
      ds == DigitPrefix(body)
  IN IF ds = <<>> THEN NaN
     ELSE Num(IF neg THEN 0 - DigitsValue(ds, 0) ELSE DigitsValue(ds, 0))

\* req.query.horizon: absent, or the text of the parameter.
Absent == [present |-> FALSE, text |-> <<>>]
Supplied(t) == [present |-> TRUE, text |-> t]

\* parseInt(req.query.horizon as string); parseInt(undefined) is NaN.
ParseQueryInt(q) == IF q.present THEN ParseInt(q.text) ELSE NaN

\* x || d on a number: NaN and 0 are falsy.
OrDefault(x, d) == IF x.nan \/ x.val = 0 THEN d ELSE x.val

\* A value of a JSON body, or undefined for a missing property.
Undefined == [t |-> "undefined", n |-> 0, s |-> <<>>, b |-> FALSE]
Null == [t |-> "null", n |-> 0, s |-> <<>>, b |-> FALSE]
JsonNumber(n) == [t |-> "number", n |-> n, s |-> <<>>, b |-> FALSE]
JsonString(s) == [t |-> "string", n |-> 0, s |-> s, b |-> FALSE]
JsonBoolean(b) == [t |-> "boolean", n |-> 0, s |-> <<>>, b |-> b]
EmptyArray == [t |-> "array", n |-> 0, s |-> <<>>, b |-> FALSE]
EmptyObject == [t |-> "object", n |-> 0, s |-> <<>>, b |-> FALSE]

JsonValues ==
  {Undefined, Null, EmptyArray, EmptyObject}
    \cup {JsonNumber(n) : n \in {0 - 7, 0, 7, 9000}}
    \cup {JsonString(t) : t \in Texts}
    \cup {JsonBoolean(b) : b \in BOOLEAN}

\* !v: undefined, null, 0, NaN, the empty string and false are falsy.
Truthy(v) ==
  CASE v.t \in {"undefined", "null"} -> FALSE
    [] v.t = "number" -> v.n # 0
    [] v.t = "string" -> v.s # <<>>
    [] v.t = "boolean" -> v.b
    [] OTHER -> TRUE

RECURSIVE Reverse(_)
Reverse(s) == IF s = <<>> THEN <<>> ELSE Reverse(Tail(s)) \o <<Head(s)>>

Trim(s) == Reverse(SkipSpaces(Reverse(SkipSpaces(s))))

\* Number(text): the trimmed text must be a numeral as a whole; the empty
\* text is 0.
StringToNumber(s) ==
  LET t == Trim(s)
      neg == t # <<>> /\ Head(t) = "-"
      body == IF neg THEN Tail(t) ELSE t
  IN IF t = <<>> THEN Num(0)
     ELSE IF body = <<>> \/ DigitPrefix(body) # body THEN NaN
     ELSE Num(IF neg THEN 0 - DigitsValue(body, 0) ELSE DigitsValue(body, 0))

\* ToNumber(v), the conversion the relational operators apply.
ToNumber(v) ==
  CASE v.t = "undefined" -> NaN
    [] v.t = "null" -> Num(0)
    [] v.t = "number" -> Num(v.n)
    [] v.t = "string" -> StringToNumber(v.s)
    [] v.t = "boolean" -> Num(IF v.b THEN 1 ELSE 0)
    [] v.t = "array" -> Num(0)
    [] v.t = "object" -> NaN

\* v <= 0; a comparison with NaN is false.
AtMostZero(v) == ~ToNumber(v).nan /\ ToNumber(v).val <= 0

(***************************************************************************)
(* Backend: routes/forecast.ts and routes/optimizer.ts.                    *)
(***************************************************************************)
DefaultHorizon == 30
MinHorizon == 7
MaxHorizon == 90

\* What the ML service does with a forwarded request: it answers, it
\* rejects the request with an HTTP error, or it cannot be reached.
MlOutcomes == {"ok", "rejects", "down"}

NoCall == [called |-> FALSE, horizon |-> 0, budget |-> Undefined]

\* The answer of a route once it has forwarded `call` to the ML service.
Forwarded(call, ml) ==
  CASE ml = "ok" ->
         [http |-> 200, status |-> "success", message |-> "none", call |-> call]
    [] ml = "rejects" ->
         [http |-> 400, status |-> "error", message |-> "detail", call |-> call]
    [] ml = "down" ->
         [http |-> 502, status |-> "error", message |-> "ML service unavailable",
          call |-> call]

PremiumOnly ==
  [http |-> 403, status |-> "error", message |-> "Premium feature", call |-> NoCall]

\* const horizon = parseInt(req.query.horizon as string) || 30
Horizon(q) == OrDefault(ParseQueryInt(q), DefaultHorizon)

\* GET /api/v1/forecast
GetForecast(caller, q, ml) ==
  IF ~RequirePremium(caller) THEN PremiumOnly
  ELSE IF Horizon(q) < MinHorizon \/ Horizon(q) > MaxHorizon
    THEN [http |-> 400, status |-> "error",
          message |-> "Horizon must be between 7 and 90 days", call |-> NoCall]
  ELSE Forwarded([called |-> TRUE, horizon |-> Horizon(q), budget |-> Undefined], ml)

\* if (!budget || budget <= 0)
BudgetRejected(budget) == ~Truthy(budget) \/ AtMostZero(budget)

\* POST /api/v1/optimizer/run
RunOptimizer(caller, budget, ml) ==
  IF ~RequirePremium(caller) THEN PremiumOnly
  ELSE IF BudgetRejected(budget)
    THEN [http |-> 400, status |-> "error",
          message |-> "Budget must be greater than 0", call |-> NoCall]
  ELSE Forwarded([called |-> TRUE, horizon |-> 0, budget |-> budget], ml)

(***************************************************************************)
(* The optimizer, from the Optimizer page of pages/Forecast.tsx through    *)
(* routes/optimizer.ts to run_optimizer of the ML service.                 *)
(***************************************************************************)
PageChannels == {"Google Ads", "Facebook Ads"}
ConstraintTexts == {<<>>, <<"6">>, <<"9">>}
BudgetTexts == {<<"7">>, <<"9", "0">>, <<"0">>, <<"-", "7">>, <<"a">>, <<>>}

\* The minSpend and maxSpend states of the page: the text of the field of
\* every channel whose field was edited.
SpendInputs == UNION {[chs -> ConstraintTexts] : chs \in SUBSET PageChannels}

\* parseFloat(text); on texts with no '.', no exponent and no 'Infinity' it
\* reads what parseInt reads.
ParseFloat(t) == ParseInt(t)

\* Object.fromEntries(Object.entries(spend).map(([k, v]) => [k, parseFloat(v) || 0]))
SpendNumbers(spend) ==
  [k \in DOMAIN spend |-> OrDefault(ParseFloat(spend[k]), 0)]

\* The constraints object the page builds; a property is set only if its
\* state has a key.
PageConstraints(mins, maxs) ==
  [has_min |-> DOMAIN mins # {}, min_spend |-> SpendNumbers(mins),
   has_max |-> DOMAIN maxs # {}, max_spend |-> SpendNumbers(maxs)]

\* The body of api.post('/optimizer/run', ...); JSON has no NaN, it is sent
\* as null.
PageBody(budget, mins, maxs) ==
  [budget |-> IF ParseFloat(budget).nan THEN Null
              ELSE JsonNumber(ParseFloat(budget).val),
   constraints |-> PageConstraints(mins, maxs)]

RECURSIVE SumOf(_)
SumOf(f) ==
  IF DOMAIN f = {} THEN 0
  ELSE LET k == CHOOSE x \in DOMAIN f : TRUE
       IN f[k] + SumOf([x \in DOMAIN f \ {k} |-> f[x]])

\* The constraints cannot be met with the budget.
Infeasible(budget, constraints) ==
  \/ constraints.has_min /\ SumOf(constraints.min_spend) > budget
  \/ constraints.has_max /\ SumOf(constraints.max_spend) < budget

\* run_optimizer(account_id, budget, constraints) of the ML service.
MlRunOptimizer(budget, constraints, hasAttribution) ==
  IF Infeasible(budget, constraints)
    THEN [http |-> 400, detail |-> "InfeasibleConstraints", allocation |-> FALSE]
  ELSE IF ~hasAttribution
    THEN [http |-> 400, detail |-> "PrerequisiteMissing", allocation |-> FALSE]
  ELSE [http |-> 200, detail |-> "none", allocation |-> TRUE]

NoConstraints ==
  [has_min |-> FALSE, min_spend |-> <<>>, has_max |-> FALSE, max_spend |-> <<>>]

\* A route that forwards the budget alone.
ForwardConstraintsNone(constraints) == NoConstraints

\* constraints: constraints || {}; the object of the page is truthy.
ForwardConstraints(constraints) == constraints

\* POST /api/v1/optimizer/run for a body of the page: the answer, and what
\* the ML service was sent.
OptimizerRoute(caller, body, ml, hasAttribution) ==
  IF ~RequirePremium(caller)
    THEN [http |-> 403, message |-> "Premium feature", allocation |-> FALSE,
          called |-> FALSE]
  ELSE IF BudgetRejected(body.budget)
    THEN [http |-> 400, message |-> "Budget must be greater than 0",
          allocation |-> FALSE, called |-> FALSE]
  ELSE IF ml = "down"
    THEN [http |-> 502, message |-> "ML service unavailable",
          allocation |-> FALSE, called |-> TRUE]
  ELSE LET resp == MlRunOptimizer(body.budget.n,
                                  ForwardConstraints(body.constraints),
                                  hasAttribution)
       IN IF resp.http = 200
            THEN [http |-> 200, message |-> "none", allocation |-> resp.allocation,
                  called |-> TRUE]
            ELSE [http |-> resp.http, message |-> resp.detail,
                  allocation |-> FALSE, called |-> TRUE]

\* The user presses Optimize Budget; the button is disabled while the budget
\* field is empty.
CallOptimizer(caller, budget, mins, maxs, ml, hasAttribution) ==
  /\ fnCall.fn = "none"
  /\ budget # <<>>
  /\ fnCall' = [fn |-> "optimize", caller |-> caller, ml |-> ml,
                body |-> PageBody(budget, mins, maxs),
                out |-> OptimizerRoute(caller, PageBody(budget, mins, maxs),
                                       ml, hasAttribution)]
  /\ UNCHANGED notFnVars

\* useState<Record<string, string>>({}) for both.
PageInit ==
  /\ minSpend = [ch \in {} |-> <<>>]
  /\ maxSpend = [ch \in {} |-> <<>>]

\* { ...spend, [channel]: e.target.value }
WithField(spend, channel, text) ==
  [k \in DOMAIN spend \cup {channel} |-> IF k = channel THEN text ELSE spend[k]]

\* onChange of a minimum field: the user types, or clears the field.
EditMinSpend(channel, text) ==
  /\ minSpend' = WithField(minSpend, channel, text)
  /\ UNCHANGED <<maxSpend, fnCall>>
  /\ UNCHANGED notPageVars

\* onChange of a maximum field.
EditMaxSpend(channel, text) ==
  /\ maxSpend' = WithField(maxSpend, channel, text)
  /\ UNCHANGED <<minSpend, fnCall>>
  /\ UNCHANGED notPageVars

\* Optimize Budget is pressed: the body that is posted, beside the fields as
\* they stand.
SubmitOptimizer(budget) ==
  /\ fnCall.fn = "none"
  /\ fnCall' = [fn |-> "submit", minSpend |-> minSpend, maxSpend |-> maxSpend,
                body |-> PageBody(budget, minSpend, maxSpend)]
  /\ UNCHANGED pageVars
  /\ UNCHANGED notPageVars

(***************************************************************************)
(* Actions of the forecast and optimizer routes.                           *)
(***************************************************************************)
NoRequest ==
  [op |-> "none", caller |-> "none", horizon |-> Absent, budget |-> Undefined]

NoAnswer == [http |-> 0, status |-> "none", message |-> "none", call |-> NoCall]

ApiInit ==
  /\ apiReq = NoRequest
  /\ apiResp = NoAnswer

\* A forecast request arrives and is answered.
Forecast(caller, q, ml) ==
  /\ apiReq = NoRequest
  /\ apiReq' = [op |-> "forecast", caller |-> caller, horizon |-> q,
                budget |-> Undefined]
  /\ apiResp' = GetForecast(caller, q, ml)
  /\ UNCHANGED notApiVars

\* An optimizer request arrives and is answered.
Optimize(caller, budget, ml) ==
  /\ apiReq = NoRequest
  /\ apiReq' = [op |-> "optimize", caller |-> caller, horizon |-> Absent,
                budget |-> budget]
  /\ apiResp' = RunOptimizer(caller, budget, ml)
  /\ UNCHANGED notApiVars

\* The answer has been delivered.
ApiDone ==
  /\ apiReq # NoRequest
  /\ apiReq' = NoRequest
  /\ apiResp' = NoAnswer
  /\ UNCHANGED notApiVars

ApiNext ==
  \/ \E caller \in Accounts, q \in {Absent} \cup {Supplied(t) : t \in Texts},
        ml \in MlOutcomes : Forecast(caller, q, ml)
  \/ \E caller \in Accounts, budget \in JsonValues, ml \in MlOutcomes :
        Optimize(caller, budget, ml)
  \/ ApiDone


(***************************************************************************)
(* The metrics table, the Redis cache and the routes that use them:        *)
(* services/redis.ts, middleware/cache.ts, routes/data.ts,                 *)
(* routes/uploads.ts, models/MarketingMetrics.ts.                          *)
(***************************************************************************)
MaxUploads == 2      \* uploads ever started
MaxRows == 1         \* rows of an uploaded CSV
MaxMetricRows == 2   \* rows of an uploaded CSV, SpecMetrics

DefaultDays == 365
FreeTierDays == 90

CacheAccounts == {"a1", "a3"}
Readers == {"r1", "r2"}
Uploaders == {"u1", "u2"}

\* An optional column that the row leaves out, and NULL in the table.
NoValue == -1

Csvs(rows, maxRows) == UNION {[1..n -> rows] : n \in 1..maxRows}

RowInputs == [date : {"d1"}, channel : {"c1"}, spend : {1}, revenue : {NoValue}]
CsvInputs == Csvs(RowInputs, MaxRows)

\* Rows that share keys and differ in their values.
MetricRowInputs ==
  [date : {"d1"}, channel : {"c1", "c2"}, spend : {1}, revenue : {0, 3}]
MetricCsvInputs == Csvs(MetricRowInputs, MaxMetricRows)
DaysInputs == {Absent, Supplied(<<"9">>)}

MaxDataRows == 500
MaxChannels == 5

\* Large CSVs of a month: n rows of one channel on the days after `from`,
\* and one row for each of n channels on one day.
DayRows(n, from) ==
  [i \in 1..n |-> [date |-> ToString(from + i), channel |-> "c1", spend |-> 1,
                   revenue |-> NoValue]]
ChannelRows(n) ==
  [i \in 1..n |-> [date |-> "1", channel |-> ToString(i), spend |-> 1,
                   revenue |-> NoValue]]
FreeTierCsvInputs ==
  {DayRows(300, 0), DayRows(300, 300), DayRows(MaxDataRows, 0),
   DayRows(MaxDataRows + 1, 0), ChannelRows(MaxChannels),
   ChannelRows(MaxChannels + 1)}

\* const rowCount = req.file.buffer.toString().split('\n').length - 1, for
\* a file of a header line and the rows, with no newline after the last.
RowCount(ms) == (1 + Len(ms)) - 1

\* The free tier check of the upload route: is the file refused?
OverRowLimit(a, ms) == Tier(a) = "free" /\ RowCount(ms) > MaxDataRows

\* The parameters of the INSERT: metric.revenue || null, and the same for
\* the other optional columns, of which revenue stands for all.
Stored(m) ==
  [m EXCEPT !.revenue = IF m.revenue = NoValue \/ m.revenue = 0
                          THEN NoValue ELSE m.revenue]

\* INSERT ... ON CONFLICT (account_id, date, channel) DO UPDATE
Upsert(rows, m) ==
  {r \in rows : r.date # m.date \/ r.channel # m.channel} \cup {Stored(m)}

\* bulkInsert: the rows are upserted in order, in one transaction.  The loop
\* is taken in two halves, the table after the first half being the table the
\* second half starts from.
RECURSIVE BulkInsert(_, _)
BulkInsert(rows, ms) ==
  IF ms = <<>> THEN rows
  ELSE IF Len(ms) = 1 THEN Upsert(rows, ms[1])
  ELSE LET half == Len(ms) \div 2
           first == BulkInsert(rows, SubSeq(ms, 1, half))
       IN IF first = {} THEN BulkInsert({}, SubSeq(ms, half + 1, Len(ms)))
          ELSE BulkInsert(first, SubSeq(ms, half + 1, Len(ms)))

RECURSIVE SumSpend(_)
SumSpend(rows) ==
  IF rows = {} THEN 0
  ELSE LET r == CHOOSE x \in rows : TRUE IN r.spend + SumSpend(rows \ {r})

\* getSummary / getTimeSeries of an account, as read at commit asOf.
Summary(a) ==
  [asOf |-> commits[a], account |-> a, total_spend |-> SumSpend(metrics[a]),
   series |-> metrics[a]]

NoSummary == [asOf |-> 0, account |-> "none", total_spend |-> 0, series |-> {}]

\* A cache key that leaves the account out.
CacheKeyShared(kind, a, days) ==
  [ns |-> IF kind = "summary" THEN "data:summary" ELSE "cache",
   account |-> "any", days |-> days]

\* The cache key of a request: `data:summary:${accountId}:${days}` in the
\* summary route, `cache:${path}:${query}:${accountId}` in cacheMiddleware.
CacheKey(kind, a, days) ==
  [ns |-> IF kind = "summary" THEN "data:summary" ELSE "cache",
   account |-> a, days |-> days]

\* const days = req.tier === 'free' ? 90 : parseInt(req.query.days) || 365
SummaryDays(a, q) ==
  IF Tier(a) = "free" THEN FreeTierDays
  ELSE OrDefault(ParseQueryInt(q), DefaultDays)

Cached(key) == {e \in cache : e.key = key}

\* A getCached that lets the Redis error out.
GetCachedThrows(key, ok) ==
  IF ~ok THEN [threw |-> TRUE, hit |-> FALSE, value |-> NoSummary]
  ELSE IF Cached(key) = {} THEN [threw |-> FALSE, hit |-> FALSE, value |-> NoSummary]
  ELSE [threw |-> FALSE, hit |-> TRUE,
        value |-> (CHOOSE e \in Cached(key) : TRUE).value]

\* getCached(key): the cached value, or null on a miss and on any Redis
\* error (ok is whether Redis serves the command).
GetCached(key, ok) ==
  IF ok /\ Cached(key) # {}
    THEN [threw |-> FALSE, hit |-> TRUE,
          value |-> (CHOOSE e \in Cached(key) : TRUE).value]
    ELSE [threw |-> FALSE, hit |-> FALSE, value |-> NoSummary]

\* setCached(key, value, ttl): setEx, or nothing on a Redis error.
SetCached(key, value, ok) ==
  IF ok
    THEN {e \in cache : e.key # key} \cup {[key |-> key, value |-> value]}
    ELSE cache

\* invalidatePattern, first command: redisClient.keys(pattern), with the
\* pattern `data:summary:${accountId}:*`.
MatchingKeys(a) ==
  {e.key : e \in {x \in cache : x.key.ns = "data:summary" /\ x.key.account = a}}

\* invalidatePattern, second command: redisClient.del(keys).
DelKeys(keys) == {e \in cache : e.key \notin keys}

IdleReader ==
  [pc |-> "idle", kind |-> "none", caller |-> "none", upload |-> 0,
   key |-> CacheKey("summary", "none", 0),
   startAcked |-> 0, cacheFailed |-> FALSE,
   data |-> NoSummary, http |-> 0, source |-> "none", body |-> NoSummary]

IdleUploader ==
  [pc |-> "idle", account |-> "none", upload |-> 0, rows |-> <<>>, commit |-> 0,
   keys |-> {}, http |-> 0, records |-> <<>>, errors |-> <<>>]

CacheInit ==
  /\ metrics = [a \in CacheAccounts |-> {}]
  /\ commits = [a \in CacheAccounts |-> 0]
  /\ acked = [a \in CacheAccounts |-> 0]
  /\ cache = {}
  /\ rd = [r \in Readers |-> IdleReader]
  /\ up = [u \in Uploaders |-> IdleUploader]
  /\ uploads = <<>>

\* A GET arrives: /data/summary (kind "summary") or a route behind
\* cacheMiddleware (kind "middleware").
ReadStart(r, kind, a, q) ==
  /\ rd[r].pc = "idle"
  /\ rd' = [rd EXCEPT ![r] =
       [IdleReader EXCEPT !.pc = "lookup", !.kind = kind, !.caller = a,
                          !.key = CacheKey(kind, a, SummaryDays(a, q)),
                          !.startAcked = acked[a]]]
  /\ UNCHANGED <<metrics, commits, acked, cache, up, uploads>>
  /\ UNCHANGED notCacheVars

\* const cached = await getCached(cacheKey); if (cached) return res.json(...)
ReadLookup(r, ok) ==
  /\ rd[r].pc = "lookup"
  /\ LET got == GetCached(rd[r].key, ok) IN
     rd' = [rd EXCEPT ![r] =
       IF got.threw
         THEN [@ EXCEPT !.pc = "done", !.http = 500, !.cacheFailed = TRUE]
       ELSE IF got.hit
         THEN [@ EXCEPT !.pc = "done", !.http = 200, !.source = "cache",
                        !.body = got.value]
       ELSE [@ EXCEPT !.pc = "query", !.cacheFailed = ~ok]]
  /\ UNCHANGED <<metrics, commits, acked, cache, up, uploads>>
  /\ UNCHANGED notCacheVars

\* The handler reads the metrics table.
ReadQuery(r) ==
  /\ rd[r].pc = "query"
  /\ rd' = [rd EXCEPT ![r].pc = "store", ![r].data = Summary(rd[r].caller)]
  /\ UNCHANGED <<metrics, commits, acked, cache, up, uploads>>
  /\ UNCHANGED notCacheVars

\* await setCached(cacheKey, data, 300); res.json({status: 'success', data})
ReadStore(r, ok) ==
  /\ rd[r].pc = "store"
  /\ cache' = SetCached(rd[r].key, rd[r].data, ok)
  /\ rd' = [rd EXCEPT ![r].pc = "done", ![r].http = 200, ![r].source = "db",
                      ![r].body = rd[r].data,
                      ![r].cacheFailed = rd[r].cacheFailed \/ ~ok]
  /\ UNCHANGED <<metrics, commits, acked, up, uploads>>
  /\ UNCHANGED notCacheVars

\* The answer has been delivered.
ReadDone(r) ==
  /\ rd[r].pc = "done"
  /\ rd' = [rd EXCEPT ![r] = IdleReader]
  /\ UNCHANGED <<metrics, commits, acked, cache, up, uploads>>
  /\ UNCHANGED notCacheVars

\* An entry's time to live (300 s) runs out.
CacheExpire(key) ==
  /\ Cached(key) # {}
  /\ cache' = DelKeys({key})
  /\ UNCHANGED <<metrics, commits, acked, rd, up, uploads>>
  /\ UNCHANGED notCacheVars

UploadsStarted == Len(uploads)

\* INSERT INTO csv_uploads (...) VALUES (..., 'processing').  committed is
\* no column: it tells whether the transaction of the upload's bulkInsert
\* has committed.
NewUpload(a) ==
  [account_id |-> a, status |-> "processing", error_message |-> "none",
   committed |-> FALSE]

\* SELECT * FROM csv_uploads WHERE id = $1 AND account_id = $2
UploadLookup(caller, id) ==
  {i \in 1..Len(uploads) : i = id /\ uploads[i].account_id = caller}

\* GET /api/v1/uploads/:id
GetUpload(r, caller, id) ==
  /\ rd[r].pc = "idle"
  /\ rd' = [rd EXCEPT ![r] =
       IF UploadLookup(caller, id) = {}
         THEN [IdleReader EXCEPT !.pc = "done", !.kind = "upload",
                                 !.caller = caller, !.http = 404]
         ELSE [IdleReader EXCEPT !.pc = "done", !.kind = "upload",
                                 !.caller = caller, !.http = 200, !.source = "db",
                                 !.upload = CHOOSE i \in UploadLookup(caller, id) : TRUE]]
  /\ UNCHANGED <<metrics, commits, acked, cache, up, uploads>>
  /\ UNCHANGED notCacheVars

\* POST /uploads/csv arrives with a CSV whose rows all pass validation.  A
\* file over the free tier's row limit is answered 403 at once; otherwise
\* the csv_uploads row is inserted as processing.
UploadStart(u, a, ms) ==
  /\ up[u].pc = "idle"
  /\ UploadsStarted < MaxUploads
  /\ IF OverRowLimit(a, ms)
       THEN /\ up' = [up EXCEPT ![u] =
                 [IdleUploader EXCEPT !.account = a, !.http = 403]]
            /\ UNCHANGED uploads
       ELSE /\ uploads' = Append(uploads, NewUpload(a))
            /\ up' = [up EXCEPT ![u] =
                 [IdleUploader EXCEPT !.pc = "insert", !.account = a, !.rows = ms,
                                      !.upload = Len(uploads) + 1]]
  /\ UNCHANGED <<metrics, commits, acked, cache, rd>>
  /\ UNCHANGED notCacheVars

\* await MarketingMetricsModel.bulkInsert(...); the upload record becomes
\* completed.
UploadInsert(u) ==
  /\ up[u].pc = "insert"
  /\ LET a == up[u].account IN
     /\ metrics' = [metrics EXCEPT ![a] = BulkInsert(@, up[u].rows)]
     /\ commits' = [commits EXCEPT ![a] = @ + 1]
     /\ up' = [up EXCEPT ![u].pc = "keys", ![u].commit = commits[a] + 1]
  /\ uploads' = [uploads EXCEPT ![up[u].upload].status = "completed",
                                ![up[u].upload].committed = TRUE]
  /\ UNCHANGED <<acked, cache, rd>>
  /\ UNCHANGED notCacheVars

\* bulkInsert throws (a deadlock with a concurrent upload, a lost
\* connection): ROLLBACK, the upload record becomes failed, the error is
\* rethrown and the request is answered 500.
UploadAbort(u) ==
  /\ up[u].pc = "insert"
  /\ up' = [up EXCEPT ![u] = IdleUploader]
  /\ uploads' = [uploads EXCEPT ![up[u].upload].status = "failed",
                                ![up[u].upload].error_message = "error"]
  /\ UNCHANGED <<metrics, commits, acked, cache, rd>>
  /\ UNCHANGED notCacheVars

\* bulkInsert commits and the UPDATE to completed throws (the connection is
\* lost, the pool times out).  The catch block runs its UPDATE to failed,
\* which succeeds or throws as well; the error reaches the error handler
\* and the request is answered 500.
UploadCompleteFails(u, recorded) ==
  /\ up[u].pc = "insert"
  /\ LET a == up[u].account IN
     /\ metrics' = [metrics EXCEPT ![a] = BulkInsert(@, up[u].rows)]
     /\ commits' = [commits EXCEPT ![a] = @ + 1]
     /\ up' = [up EXCEPT ![u] = [IdleUploader EXCEPT !.account = a, !.http = 500]]
  /\ uploads' =
       IF recorded
         THEN [uploads EXCEPT ![up[u].upload].status = "failed",
                              ![up[u].upload].error_message = "error",
                              ![up[u].upload].committed = TRUE]
         ELSE [uploads EXCEPT ![up[u].upload].committed = TRUE]
  /\ UNCHANGED <<acked, cache, rd>>
  /\ UNCHANGED notCacheVars

\* bulkInsert throws and rolls back, and the UPDATE to failed of the catch
\* block throws as well: the request is answered 500.
UploadAbortUnrecorded(u) ==
  /\ up[u].pc = "insert"
  /\ up' = [up EXCEPT ![u] =
       [IdleUploader EXCEPT !.account = up[u].account, !.http = 500]]
  /\ UNCHANGED <<metrics, commits, acked, cache, rd, uploads>>
  /\ UNCHANGED notCacheVars

\* invalidatePattern(`data:summary:${accountId}:*`): the keys command; a
\* Redis error ends the invalidation without a word.
UploadKeys(u, ok) ==
  /\ up[u].pc = "keys"
  /\ up' = [up EXCEPT ![u].pc = IF ok /\ MatchingKeys(up[u].account) # {}
                                    THEN "del" ELSE "respond",
                      ![u].keys = IF ok THEN MatchingKeys(up[u].account) ELSE {}]
  /\ UNCHANGED <<metrics, commits, acked, cache, rd, uploads>>
  /\ UNCHANGED notCacheVars

\* invalidatePattern: the del command.
UploadDel(u, ok) ==
  /\ up[u].pc = "del"
  /\ cache' = IF ok THEN DelKeys(up[u].keys) ELSE cache
  /\ up' = [up EXCEPT ![u].pc = "respond", ![u].keys = {}]
  /\ UNCHANGED <<metrics, commits, acked, rd, uploads>>
  /\ UNCHANGED notCacheVars

\* res.json({status: 'success', ...}); no key starts with data:timeseries,
\* so the second invalidatePattern finds nothing to delete.
UploadRespond(u) ==
  /\ up[u].pc = "respond"
  /\ LET a == up[u].account IN
     acked' = [acked EXCEPT ![a] = IF up[u].commit > @ THEN up[u].commit ELSE @]
  /\ up' = [up EXCEPT ![u] = IdleUploader]
  /\ UNCHANGED <<metrics, commits, cache, rd, uploads>>
  /\ UNCHANGED notCacheVars

CacheKeys ==
  {CacheKey(kind, a, SummaryDays(a, q)) :
     kind \in {"summary", "middleware"}, a \in CacheAccounts, q \in DaysInputs}

\* The steps of the requests in flight: Redis answers from oks, requests
\* come from the given clients for the given routes, accounts and queries,
\* uploads carry one of the given CSVs.
CacheNext(oks, readers, uploaders, kinds, accounts, queries, csvs) ==
  \/ \E r \in readers, kind \in kinds, a \in accounts, q \in queries :
        ReadStart(r, kind, a, q)
  \/ \E r \in readers, ok \in oks : ReadLookup(r, ok)
  \/ \E r \in readers : ReadQuery(r)
  \/ \E r \in readers, ok \in oks : ReadStore(r, ok)
  \/ \E r \in readers : ReadDone(r)
  \/ \E key \in CacheKeys : CacheExpire(key)
  \/ \E u \in uploaders, a \in accounts, ms \in csvs : UploadStart(u, a, ms)
  \/ \E u \in uploaders : UploadInsert(u)
  \/ \E u \in uploaders, ok \in oks : UploadKeys(u, ok)
  \/ \E u \in uploaders, ok \in oks : UploadDel(u, ok)
  \/ \E u \in uploaders : UploadRespond(u)

\* Concurrent uploads of one account, some of which the database aborts,
\* beside a reader of its summary.
MetricsNext ==
  \/ CacheNext({TRUE}, {"r1"}, Uploaders, {"summary"}, {"a1"}, {Absent},
               MetricCsvInputs)
  \/ \E u \in Uploaders : UploadAbort(u)


(***************************************************************************)
(* utils/validation.ts, and the dates it reads.                            *)
(***************************************************************************)
AllDigits == {"0", "1", "2", "3", "4", "5", "6", "7", "8", "9"}

\* /^\d{4}-\d{2}-\d{2}$/
DateForm(t) ==
  /\ Len(t) = 10
  /\ \A i \in 1..10 : IF i \in {5, 8} THEN t[i] = "-" ELSE t[i] \in AllDigits

YearOf(t) == DigitsValue(SubSeq(t, 1, 4), 0)
MonthOf(t) == DigitsValue(SubSeq(t, 6, 7), 0)
DayOf(t) == DigitsValue(SubSeq(t, 9, 10), 0)

LeapYear(y) == (y % 4 = 0 /\ y % 100 # 0) \/ y % 400 = 0

DaysInMonth(y, m) ==
  IF m = 2 THEN (IF LeapYear(y) THEN 29 ELSE 28)
  ELSE IF m \in {4, 6, 9, 11} THEN 30 ELSE 31

\* The days from 1970-01-01 to the day d of month m of year y.
DayNumber(y, m, d) ==
  LET yy == IF m <= 2 THEN y - 1 ELSE y
      era == yy \div 400
      yoe == yy - era * 400
      mp == IF m > 2 THEN m - 3 ELSE m + 9
      doy == (153 * mp + 2) \div 5 + d - 1
      doe == yoe * 365 + yoe \div 4 - yoe \div 100 + doy
  IN era * 146097 + doe - 719468

\* Instants are counted in half days from 1970-01-01T00:00Z.
HalfDaysPerDay == 2

\* new Date(text).getTime() of a date-only text: midnight UTC of the day, or
\* NaN.  Texts of other forms that the engine parses, and days past the end
\* of their month, are not among the inputs.
ParseDate(t) ==
  IF /\ DateForm(t)
     /\ MonthOf(t) \in 1..12
     /\ DayOf(t) \in 1..DaysInMonth(YearOf(t), MonthOf(t))
    THEN Num(HalfDaysPerDay * DayNumber(YearOf(t), MonthOf(t), DayOf(t)))
    ELSE NaN

\* A validateDateRange that lets the oldest day of the window through at
\* any hour.
ValidateDateRangeByDay(t, maxDaysBack, clock) ==
  LET dateObj == ParseDate(t)
      maxDate == (clock - (clock % HalfDaysPerDay)) - (HalfDaysPerDay * maxDaysBack)
  IN IF dateObj.nan THEN [valid |-> FALSE, error |-> "Invalid date format"]
     ELSE IF dateObj.val > clock
       THEN [valid |-> FALSE, error |-> "Date cannot be in the future"]
     ELSE IF dateObj.val < maxDate
       THEN [valid |-> FALSE, error |-> "Date must be within last days"]
     ELSE [valid |-> TRUE, error |-> "none"]

\* validateDateRange(date, maxDaysBack) called at the instant clock.
ValidateDateRange(t, maxDaysBack, clock) ==
  LET dateObj == ParseDate(t)
      maxDate == clock - HalfDaysPerDay * maxDaysBack
  IN IF dateObj.nan THEN [valid |-> FALSE, error |-> "Invalid date format"]
     ELSE IF dateObj.val > clock
       THEN [valid |-> FALSE, error |-> "Date cannot be in the future"]
     ELSE IF dateObj.val < maxDate
       THEN [valid |-> FALSE, error |-> "Date must be within last days"]
     ELSE [valid |-> TRUE, error |-> "none"]

Today == <<"2", "0", "2", "5", "-", "0", "1", "-", "1", "5">>

\* The instants a call is made at: midnight and midday of today.
Clocks == {ParseDate(Today).val, ParseDate(Today).val + 1}

DateTexts ==
  {Today,
   <<"2", "0", "2", "5", "-", "0", "1", "-", "1", "6">>,
   <<"2", "0", "2", "5", "-", "0", "1", "-", "1", "4">>,
   <<"2", "0", "2", "5", "-", "0", "1", "-", "1", "3">>,
   <<"2", "0", "2", "4", "-", "0", "2", "-", "2", "9">>,
   <<"2", "0", "2", "3", "-", "0", "1", "-", "1", "6">>,
   <<"2", "0", "2", "3", "-", "0", "1", "-", "1", "5">>,
   <<"2", "0", "2", "5", "-", "1", "3", "-", "4", "5">>,
   <<"2", "0", "2", "5", "-", "0", "0", "-", "1", "0">>,
   <<"a", "b", "c">>,
   <<>>}

FreeDaysBack == 730
PremiumDaysBack == 3650

DaysBackInputs == {0, 1, 2, FreeDaysBack, FreeDaysBack + 1, PremiumDaysBack}

\* A validateMinimumDataDays that counts the dates and not the days.
ValidateMinimumDataDaysByLength(dates) ==
  IF Len(dates) < MinAttributionDays
    THEN [valid |-> FALSE,
          error |-> "Minimum 60 days of data required for attribution"]
    ELSE [valid |-> TRUE, error |-> "none"]

\* validateMinimumDataDays(accountId, dates)
ValidateMinimumDataDays(dates) ==
  IF Len(dates) < MinAttributionDays
    THEN [valid |-> FALSE,
          error |-> "Minimum 60 days of data required for attribution"]
  ELSE IF Cardinality({dates[i] : i \in 1..Len(dates)}) < MinAttributionDays
    THEN [valid |-> FALSE, error |-> "Minimum 60 unique days of data required"]
  ELSE [valid |-> TRUE, error |-> "none"]

\* A list of n dates that repeats k different days in turn.
DateList(n, k) == [i \in 1..n |-> ((i - 1) % k) + 1]

DateListInputs ==
  {DateList(n, k) : n \in {0, 1, 59, 60, 61, 120}, k \in {1, 30, 59, 60, 61}}

\* z.coerce.number(): Number(input); a missing column is undefined, NaN.
CoerceNumber(cell) == IF cell.present THEN StringToNumber(cell.text) ELSE NaN

\* .nonnegative().finite() on the coerced number; zod refuses NaN, and every
\* other number of the model is finite.
NonNegativeNumber(cell) == ~CoerceNumber(cell).nan /\ CoerceNumber(cell).val >= 0

MaxChannelLength == 100

\* csvRowSchema.safeParse(record): success, and the parsed row.  revenue
\* stands for the optional numeric columns.
CsvRowSchema(record) ==
  [success |->
     /\ DateForm(record.date)
     /\ Len(record.channel) >= 1 /\ Len(record.channel) <= MaxChannelLength
     /\ NonNegativeNumber(record.spend)
     /\ (record.revenue.present => NonNegativeNumber(record.revenue)),
   date |-> record.date,
   spend |-> CoerceNumber(record.spend),
   revenue |-> IF record.revenue.present
                 THEN CoerceNumber(record.revenue) ELSE NaN]

\* The body of the upload route's loop for one record: is a metric pushed
\* for bulkInsert?
RowPushed(record, tier, clock) ==
  /\ CsvRowSchema(record).success
  /\ ValidateDateRange(record.date,
                       IF tier = "free" THEN FreeDaysBack ELSE PremiumDaysBack,
                       clock).valid

MaxCellLen == 2      \* characters of a cell of an uploaded CSV

CellTexts == UNION {[1..n -> Chars] : n \in 0..MaxCellLen}

RecordInputs ==
  [date : {Today,
           <<"2", "0", "2", "5", "-", "1", "3", "-", "4", "5">>,
           <<"0", "1", "/", "1", "5", "/", "2", "0", "2", "5">>,
           <<>>},
   channel : {<<>>, <<"a">>},
   spend : {Absent} \cup {Supplied(t) : t \in CellTexts},
   revenue : {Absent, Supplied(<<"0">>), Supplied(<<"7">>), Supplied(<<"-", "7">>)}]

NoFnCall == [fn |-> "none"]

FnInit == fnCall = NoFnCall

\* validateDateRange is called.
CallValidateDateRange(t, maxDaysBack, clock) ==
  /\ fnCall.fn = "none"
  /\ fnCall' = [fn |-> "validateDateRange", date |-> t,
                maxDaysBack |-> maxDaysBack, clock |-> clock,
                out |-> ValidateDateRange(t, maxDaysBack, clock)]
  /\ UNCHANGED notFnVars

\* validateMinimumDataDays is called.
CallValidateMinimumDataDays(dates) ==
  /\ fnCall.fn = "none"
  /\ fnCall' = [fn |-> "validateMinimumDataDays", dates |-> dates,
                out |-> ValidateMinimumDataDays(dates)]
  /\ UNCHANGED notFnVars

\* A record of an uploaded CSV goes through the loop of the upload route.
CallCsvRowSchema(record, tier, clock) ==
  /\ fnCall.fn = "none"
  /\ fnCall' = [fn |-> "csvRowSchema", record |-> record, tier |-> tier,
                out |-> CsvRowSchema(record),
                pushed |-> RowPushed(record, tier, clock)]
  /\ UNCHANGED notFnVars

\* The call has returned.
FnDone ==
  /\ fnCall.fn # "none"
  /\ fnCall' = NoFnCall
  /\ UNCHANGED notFnVars

ValidationNext ==
  \/ \E t \in DateTexts, n \in DaysBackInputs, clock \in Clocks :
        CallValidateDateRange(t, n, clock)
  \/ \E dates \in DateListInputs : CallValidateMinimumDataDays(dates)
  \/ \E record \in RecordInputs, tier \in {"free", "premium"} :
        CallCsvRowSchema(record, tier, ParseDate(Today).val + 1)
  \/ FnDone

(***************************************************************************)
(* Actions of the jobs subsystem.                                          *)
(***************************************************************************)
JobsInit ==
  /\ now = 0
  /\ jobs = <<>>
  /\ queue = <<>>
  /\ holding = [w \in Workers |-> 0]
  /\ results = {}
  /\ pageJob = [a \in Accounts |-> 0]
  /\ observed = [a \in Accounts |-> "none"]
  /\ lastResp = NoResp

\* The clock advances by a day. The page polls every 2 seconds, so by then
\* every polling page has seen the current status of its job.
Tick(lastDay) ==
  /\ now < lastDay
  /\ \A a \in Accounts : RefetchActive(a) => UpToDate(a)
  /\ now' = now + 1
  /\ lastResp' = NoResp
  /\ UNCHANGED <<jobs, queue, holding, results, pageJob, observed>>
  /\ UNCHANGED notJobVars

\* POST /api/v1/models/attribution/run, from the page's button (ui) or from
\* any other client of the API.
RunAttribution(a, ui, maxJobs, lastDay) ==
  /\ ui => ButtonEnabled(a)
  /\ IF ~RequirePremium(a)
       THEN /\ lastResp' = Answer("run", a, 0,
                                  [http |-> 403, status |-> "error", path |-> "gate",
                                   data |-> NoData, message |-> "Premium feature"])
            /\ UNCHANGED <<jobs, queue, pageJob, observed>>
       ELSE /\ ~HasActiveJob(a) =>
                 (Len(jobs) < maxJobs /\ now + JobTtlDays <= lastDay)
            /\ jobs' = SubmitJobs(a)
            /\ queue' = SubmitQueue(a)
            /\ lastResp' = Answer("run", a, SubmitReturns(a),
                                  [http |-> 200, status |-> "success", path |-> "ml",
                                   data |-> NoData, message |-> "none"])
            /\ IF ui
                 THEN /\ pageJob' = [pageJob EXCEPT ![a] = SubmitReturns(a)]
                      /\ observed' = [observed EXCEPT ![a] =
                            IF pageJob[a] = SubmitReturns(a) THEN @ ELSE "none"]
                 ELSE UNCHANGED <<pageJob, observed>>
  /\ UNCHANGED <<now, holding, results>>
  /\ UNCHANGED notJobVars

\* claim_next by worker w.
ClaimNext(w) ==
  /\ holding[w] = 0
  /\ queue # <<>>
  /\ queue' = Claim(w).queue
  /\ jobs' = Claim(w).jobs
  /\ holding' = Claim(w).holding
  /\ lastResp' = NoResp
  /\ UNCHANGED <<now, results, pageJob, observed>>
  /\ UNCHANGED notJobVars

\* Worker w finishes its job: the model ran and its result is saved, or it
\* failed.
WorkerFinish(w) ==
  /\ holding[w] # 0
  /\ LET id == holding[w] IN
     IF UniqueDays(jobs[id].account) < MinAttributionDays
       THEN /\ jobs' = Fail(id, "InsufficientData")
            /\ UNCHANGED results
       ELSE \/ \E r \in ResultVals :
                 /\ jobs' = Complete(id, r)
                 /\ results' = SaveAttribution(id, r)
            \/ /\ jobs' = Fail(id, "NumericalInstability")
               /\ UNCHANGED results
  /\ holding' = [holding EXCEPT ![w] = 0]
  /\ lastResp' = NoResp
  /\ UNCHANGED <<now, queue, pageJob, observed>>
  /\ UNCHANGED notJobVars

\* The completion signal of a finished job arrives once more.
DuplicateSignal(id) ==
  /\ Exists(id)
  /\ jobs[id].status \in Terminal
  /\ \/ \E r \in ResultVals : jobs' = Complete(id, r)
     \/ jobs' = Fail(id, "Duplicate")
  /\ lastResp' = [NoResp EXCEPT !.op = "signal", !.id = id]
  /\ UNCHANGED <<now, queue, holding, results, pageJob, observed>>
  /\ UNCHANGED notJobVars

\* The page's query refetches the status of its job.
Poll(a) ==
  /\ RefetchActive(a)
  /\ observed' = [observed EXCEPT ![a] =
                    QueryStatus(GetAttribution(a, pageJob[a]), @)]
  /\ lastResp' = Answer("get", a, pageJob[a], GetAttribution(a, pageJob[a]))
  /\ UNCHANGED <<now, jobs, queue, holding, results, pageJob>>
  /\ UNCHANGED notJobVars

\* Any client reads any id through the status route.
ApiGet(caller, id) ==
  /\ lastResp' = Answer("get", caller, id, GetAttribution(caller, id))
  /\ UNCHANGED <<now, jobs, queue, holding, results, pageJob, observed>>
  /\ UNCHANGED notJobVars

\* The steps of the job subsystem with at most maxJobs jobs, up to lastDay.
JobsSteps(maxJobs, lastDay) ==
  \/ Tick(lastDay)
  \/ \E a \in Accounts, ui \in BOOLEAN : RunAttribution(a, ui, maxJobs, lastDay)
  \/ \E w \in Workers : ClaimNext(w)
  \/ \E w \in Workers : WorkerFinish(w)
  \/ \E id \in 1..maxJobs : DuplicateSignal(id)
  \/ \E a \in Accounts : Poll(a)

JobsNext == JobsSteps(MaxJobs, MaxTime)

StatusNext ==
  \/ Tick(MaxStatusTime)
  \/ \E a \in Accounts : RunAttribution(a, FALSE, MaxStatusJobs, MaxStatusTime)
  \/ \E w \in Workers : ClaimNext(w)
  \/ \E w \in Workers : WorkerFinish(w)
  \/ \E caller \in Accounts, id \in 1..(MaxStatusJobs + 1) : ApiGet(caller, id)

(***************************************************************************)
(* The PDF showcase: App.tsx.                                              *)
(***************************************************************************)
MaxUrls == 3         \* object URLs ever created

\* The files the user can pick; "t" is not a PDF.
Files == {"a", "b", "t"}
IsPdf(f) == f # "t"

\* Array.from(files), the picked files in the order of the dialog.
FileList(picked) == SelectSeq(<<"a", "b", "t">>, LAMBDA f : f \in picked)

Ids(list) == {list[i].id : i \in 1..Len(list)}
Urls(list) == {list[i].url : i \in 1..Len(list)}

\* newPdfs: a PdfFile with a fresh object URL for every PDF picked.
NewPdfs(picked) ==
  LET fs == SelectSeq(FileList(picked), IsPdf)
  IN [i \in 1..Len(fs) |-> [id |-> fs[i], url |-> created + i]]

\* The cleanup of the effect on [pdfs]: it runs when the list is replaced,
\* and when App unmounts, and revokes the URLs of the list it was made for.
EffectCleanup(list) == Urls(list)

ShowcaseInit ==
  /\ pdfs = <<>>
  /\ selectedPdf = "none"
  /\ created = 0
  /\ revoked = {}
  /\ mounted = TRUE

\* handleFileChange: the user picks files; setPdfs installs a new list, so
\* the effect of the old list is cleaned up.
HandleFileChange(picked) ==
  /\ mounted
  /\ created + Len(NewPdfs(picked)) <= MaxUrls
  /\ pdfs' = pdfs \o SelectSeq(NewPdfs(picked), LAMBDA p : p.id \notin Ids(pdfs))
  /\ created' = created + Len(NewPdfs(picked))
  /\ revoked' = revoked \cup EffectCleanup(pdfs)
  /\ UNCHANGED <<selectedPdf, mounted>>
  /\ UNCHANGED notShowcaseVars

\* handleRemovePdf(id), from the card of a PDF in the list.
HandleRemovePdf(id) ==
  /\ mounted
  /\ id \in Ids(pdfs)
  /\ pdfs' = SelectSeq(pdfs, LAMBDA p : p.id # id)
  /\ revoked' = revoked \cup {p.url : p \in {pdfs[i] : i \in {j \in 1..Len(pdfs) : pdfs[j].id = id}}}
                        \cup EffectCleanup(pdfs)
  /\ UNCHANGED <<selectedPdf, created, mounted>>
  /\ UNCHANGED notShowcaseVars

\* handleViewPdf(pdf)
HandleViewPdf(id) ==
  /\ mounted
  /\ id \in Ids(pdfs)
  /\ selectedPdf' = id
  /\ UNCHANGED <<pdfs, created, revoked, mounted>>
  /\ UNCHANGED notShowcaseVars

\* handleCloseModal
HandleCloseModal ==
  /\ mounted
  /\ selectedPdf # "none"
  /\ selectedPdf' = "none"
  /\ UNCHANGED <<pdfs, created, revoked, mounted>>
  /\ UNCHANGED notShowcaseVars

\* App unmounts.
Unmount ==
  /\ mounted
  /\ mounted' = FALSE
  /\ revoked' = revoked \cup EffectCleanup(pdfs)
  /\ UNCHANGED <<pdfs, selectedPdf, created>>
  /\ UNCHANGED notShowcaseVars

ShowcaseNext ==
  \/ \E picked \in SUBSET Files : HandleFileChange(picked)
  \/ \E id \in Files : HandleRemovePdf(id)
  \/ \E id \in Files : HandleViewPdf(id)
  \/ HandleCloseModal
  \/ Unmount

(***************************************************************************)
(* Channel names: utils/channelNormalization.ts and POST /data/map.        *)
(***************************************************************************)
MaxChannelLen == 2   \* characters of a channel cell
MaxMappings == 2     \* rows of channel_normalization, and mappings per request

ChannelChars == {"f", "F", "b", " "}
ChannelTexts == UNION {[1..n -> ChannelChars] : n \in 0..MaxChannelLen}

LowerChar(c) == IF c = "F" THEN "f" ELSE c
UpperChar(c) ==
  CASE c = "f" -> "F" [] c = "b" -> "B" [] c = "a" -> "A" [] OTHER -> c

\* String.prototype.toLowerCase
ToLowerCase(t) == [i \in 1..Len(t) |-> LowerChar(t[i])]

\* The text as one string.
RECURSIVE Str(_)
Str(t) == IF t = <<>> THEN "" ELSE t[1] \o Str(Tail(t))

\* CHANNEL_MAP, the global map.
CHANNEL_MAP ==
  ("fb ads" :> "Facebook Ads") @@ ("facebook ads" :> "Facebook Ads") @@
  ("fb" :> "Facebook Ads") @@ ("google ads" :> "Google Ads") @@
  ("google" :> "Google Ads") @@ ("gads" :> "Google Ads") @@
  ("linkedin" :> "LinkedIn Ads") @@ ("linkedin ads" :> "LinkedIn Ads") @@
  ("twitter" :> "Twitter Ads") @@ ("twitter ads" :> "Twitter Ads") @@
  ("x" :> "Twitter Ads") @@ ("instagram" :> "Instagram Ads") @@
  ("instagram ads" :> "Instagram Ads") @@ ("tiktok" :> "TikTok Ads") @@
  ("tiktok ads" :> "TikTok Ads") @@ ("snapchat" :> "Snapchat Ads") @@
  ("snapchat ads" :> "Snapchat Ads") @@ ("pinterest" :> "Pinterest Ads") @@
  ("pinterest ads" :> "Pinterest Ads") @@ ("bing" :> "Bing Ads") @@
  ("bing ads" :> "Bing Ads") @@ ("email" :> "Email Marketing") @@
  ("email marketing" :> "Email Marketing") @@ ("seo" :> "SEO") @@
  ("organic" :> "Organic") @@ ("direct" :> "Direct") @@
  ("referral" :> "Referral")

\* rawChannel.split(/\s+/): the words between the runs of white space; a
\* text that starts or ends with white space has an empty first or last word.
RECURSIVE SplitWords(_, _, _)
SplitWords(t, word, afterSpace) ==
  IF t = <<>> THEN <<word>>
  ELSE IF Head(t) = " "
    THEN IF afterSpace THEN SplitWords(Tail(t), word, TRUE)
         ELSE <<word>> \o SplitWords(Tail(t), <<>>, TRUE)
  ELSE SplitWords(Tail(t), word \o <<Head(t)>>, FALSE)

\* word.charAt(0).toUpperCase() + word.slice(1).toLowerCase()
Capitalize(word) ==
  IF word = <<>> THEN <<>>
  ELSE <<UpperChar(Head(word))>> \o ToLowerCase(Tail(word))

RECURSIVE JoinWords(_)
JoinWords(words) ==
  IF Len(words) = 1 THEN Str(Capitalize(words[1]))
  ELSE Str(Capitalize(words[1])) \o " " \o JoinWords(Tail(words))

\* The default: the first letter of each word in capitals.
DefaultChannel(rawChannel) == JoinWords(SplitWords(rawChannel, <<>>, FALSE))

\* SELECT normalized_name FROM channel_normalization
\*  WHERE account_id = $1 AND raw_name = $2
AccountMap(accountId, name) ==
  {m \in channelMap : m.account_id = accountId /\ m.raw_name = name}

\* normalizeChannel(accountId, rawChannel)
NormalizeChannel(accountId, rawChannel) ==
  LET normalized == ToLowerCase(Trim(rawChannel))
  IN IF AccountMap(accountId, normalized) # {}
       THEN (CHOOSE m \in AccountMap(accountId, normalized) : TRUE).normalized_name
     ELSE IF Str(normalized) \in DOMAIN CHANNEL_MAP
       THEN CHANNEL_MAP[Str(normalized)]
     ELSE DefaultChannel(rawChannel)

\* The mappings a request body can carry.
MappingRawNames == {<<"f", "b">>, <<"F", "b">>, <<" ", "f">>, <<"b">>}
MappingInputs ==
  [raw_name : MappingRawNames, normalized_name : {"Meta", "Social"}]
MappingLists == UNION {[1..n -> MappingInputs] : n \in 0..MaxMappings}

\* INSERT INTO channel_normalization ... ON CONFLICT (account_id, raw_name)
\* DO UPDATE SET normalized_name = EXCLUDED.normalized_name
UpsertMapping(table, accountId, mapping) ==
  {m \in table : ~(m.account_id = accountId /\ m.raw_name = mapping.raw_name)}
    \cup {[account_id |-> accountId, raw_name |-> mapping.raw_name,
           normalized_name |-> mapping.normalized_name]}

RECURSIVE SaveMappings(_, _, _)
SaveMappings(table, accountId, mappings) ==
  IF mappings = <<>> THEN table
  ELSE SaveMappings(UpsertMapping(table, accountId, Head(mappings)),
                    accountId, Tail(mappings))

MapInit == channelMap = {}

\* POST /api/v1/data/map with an array of mappings, between the rows of
\* uploads.
PostMap(accountId, mappings) ==
  /\ fnCall.fn = "none"
  /\ Cardinality(SaveMappings(channelMap, accountId, mappings)) <= MaxMappings
  /\ channelMap' = SaveMappings(channelMap, accountId, mappings)
  /\ UNCHANGED notMapVars

\* normalizeChannel is called for a row of an upload of the account.
CallNormalizeChannel(accountId, rawChannel) ==
  /\ fnCall.fn = "none"
  /\ fnCall' = [fn |-> "normalizeChannel", accountId |-> accountId,
                rawChannel |-> rawChannel,
                result |-> NormalizeChannel(accountId, rawChannel)]
  /\ UNCHANGED notFnVars

ChannelNext ==
  \/ \E a \in CacheAccounts, mappings \in MappingLists : PostMap(a, mappings)
  \/ \E a \in CacheAccounts, t \in ChannelTexts : CallNormalizeChannel(a, t)
  \/ FnDone

(***************************************************************************)
(* POST /uploads/csv from the parsed records on.                           *)
(***************************************************************************)
MaxRecords == 2      \* records of an uploaded CSV

\* The instant the uploads are made at: midday of today.
UploadClock == ParseDate(Today).val + 1

\* Records of a CSV: a valid one, one that csvRowSchema refuses (a negative
\* spend) and one that validateDateRange refuses (tomorrow).
UploadRecordInputs ==
  {[date |-> Today, channel |-> <<"a">>, spend |-> Supplied(<<"7">>),
    revenue |-> Absent],
   [date |-> Today, channel |-> <<"a">>, spend |-> Supplied(<<"-", "7">>),
    revenue |-> Absent],
   [date |-> <<"2", "0", "2", "5", "-", "0", "1", "-", "1", "6">>,
    channel |-> <<"a">>, spend |-> Supplied(<<"7">>), revenue |-> Absent]}
UploadCsvInputs == UNION {[1..n -> UploadRecordInputs] : n \in 0..MaxRecords}

\* metrics.push({date: row.date, channel: normalizedChannel, ...})
MetricOf(accountId, record) ==
  [date |-> CsvRowSchema(record).date,
   channel |-> NormalizeChannel(accountId, record.channel),
   spend |-> CsvRowSchema(record).spend.val,
   revenue |-> IF CsvRowSchema(record).revenue.nan
                 THEN NoValue ELSE CsvRowSchema(record).revenue.val]

\* The loop over the records from the i-th on: a record that the schema or
\* the date range refuses leaves one error with its row number, i - 1 being
\* its index, and the others are pushed to metrics.
RECURSIVE ParseRecords(_, _, _, _)
ParseRecords(accountId, records, i, acc) ==
  IF i > Len(records) THEN acc
  ELSE IF ~CsvRowSchema(records[i]).success
    THEN ParseRecords(accountId, records, i + 1,
           [acc EXCEPT !.errors = Append(@, [row |-> (i - 1) + 2, kind |-> "schema"])])
  ELSE IF ~ValidateDateRange(CsvRowSchema(records[i]).date,
                             IF Tier(accountId) = "free"
                               THEN FreeDaysBack ELSE PremiumDaysBack,
                             UploadClock).valid
    THEN ParseRecords(accountId, records, i + 1,
           [acc EXCEPT !.errors = Append(@, [row |-> (i - 1) + 2, kind |-> "date"])])
  ELSE ParseRecords(accountId, records, i + 1,
         [acc EXCEPT !.metrics = Append(@, MetricOf(accountId, records[i]))])

\* [...new Set(dates)]
RECURSIVE Distinct(_)
Distinct(list) ==
  IF list = <<>> THEN <<>>
  ELSE <<Head(list)>> \o Distinct(SelectSeq(Tail(list), LAMBDA x : x # Head(list)))

\* The warning about the minimum of data days, pushed to errors after the
\* loop.
MinimumDaysWarning(accountId, parsed) ==
  /\ parsed.metrics # <<>>
  /\ ~ValidateMinimumDataDays(
        Distinct([i \in 1..Len(parsed.metrics) |-> parsed.metrics[i].date])).valid
  /\ Cardinality({r.date : r \in metrics[accountId]}) < MinAttributionDays

\* metrics and errors as the route has them before its answer.
ParseCsv(accountId, records) ==
  LET parsed == ParseRecords(accountId, records, 1, [metrics |-> <<>>, errors |-> <<>>])
  IN IF MinimumDaysWarning(accountId, parsed)
       THEN [parsed EXCEPT !.errors = Append(@, [row |-> 0, kind |-> "warning"])]
       ELSE parsed

\* A check that refuses every CSV with an error.
ValidationFailedAny(parsed) == parsed.errors # <<>>

\* errors.length > 0 && metrics.length === 0: the upload is answered 400.
ValidationFailed(parsed) == parsed.errors # <<>> /\ parsed.metrics = <<>>

\* POST /api/v1/uploads/csv with the records of the file, up to the INSERT
\* into csv_uploads; UploadInsert and the steps after it go on from there.
UploadCsv(u, a, records) ==
  /\ up[u].pc = "idle"
  /\ UploadsStarted < MaxUploads
  /\ LET parsed == ParseCsv(a, records) IN
     IF OverRowLimit(a, records)
       THEN /\ up' = [up EXCEPT ![u] =
                 [IdleUploader EXCEPT !.account = a, !.http = 403]]
            /\ UNCHANGED uploads
     ELSE IF ValidationFailed(parsed)
       THEN /\ up' = [up EXCEPT ![u] =
                 [IdleUploader EXCEPT !.account = a, !.http = 400,
                                      !.records = records,
                                      !.errors = parsed.errors]]
            /\ UNCHANGED uploads
       ELSE /\ uploads' = Append(uploads, NewUpload(a))
            /\ up' = [up EXCEPT ![u] =
                 [IdleUploader EXCEPT !.pc = "insert", !.account = a,
                                      !.rows = parsed.metrics,
                                      !.upload = Len(uploads) + 1,
                                      !.records = records,
                                      !.errors = parsed.errors]]
  /\ UNCHANGED <<metrics, commits, acked, cache, rd>>
  /\ UNCHANGED notCacheVars

PartialNext ==
  \/ \E a \in CacheAccounts, records \in UploadCsvInputs : UploadCsv("u1", a, records)
  \/ UploadInsert("u1")
  \/ UploadKeys("u1", TRUE)
  \/ UploadRespond("u1")

(***************************************************************************)
(* The free tier check of POST /uploads/csv on the text of the file.       *)
(***************************************************************************)
RowMargin == 10      \* data rows of a file: within RowMargin of MaxDataRows
MaxBlankLines == 2   \* newlines after the last data row

\* The text of a CSV file, line by line: "h" is the header line, "r" the
\* text of a data row, "\n" a newline.  After the last row come `newlines`
\* newlines: none, the usual final newline, or blank lines as well.
RECURSIVE Repeat(_, _)
Repeat(piece, n) ==
  IF n = 0 THEN <<>>
  ELSE IF n = 1 THEN piece
  ELSE LET half == Repeat(piece, n \div 2)
       IN IF n % 2 = 0 THEN half \o half
          ELSE half \o half \o piece

FileText(rows, newlines) ==
  <<"h">> \o Repeat(<<"\n", "r">>, rows) \o Repeat(<<"\n">>, newlines)

FileInputs ==
  {FileText(rows, newlines) :
     rows \in (MaxDataRows - RowMargin)..(MaxDataRows + RowMargin),
     newlines \in 0..MaxBlankLines}

\* text.split('\n').length
SplitLength(text) == 1 + Cardinality({i \in 1..Len(text) : text[i] = "\n"})

\* parse(text, {columns: true, skip_empty_lines: true}).length: the first
\* line names the columns, empty lines are skipped.
RecordCount(text) == Cardinality({i \in 1..Len(text) : text[i] = "r"})

\* if (req.tier === 'free') { rowCount = ...split('\n').length - 1;
\*                            if (rowCount > 500) return 403 }
FreeTierRefused(tier, text) ==
  tier = "free" /\ SplitLength(text) - 1 > MaxDataRows

\* The upload route takes the file of a request up to the free tier check.
CallFreeTierCheck(a, text) ==
  /\ fnCall.fn = "none"
  /\ fnCall' = [fn |-> "freeTierCheck", tier |-> Tier(a), text |-> text,
                http |-> IF FreeTierRefused(Tier(a), text) THEN 403 ELSE 0]
  /\ UNCHANGED notFnVars

RowLimitNext ==
  \/ \E a \in CacheAccounts, text \in FileInputs : CallFreeTierCheck(a, text)
  \/ FnDone

\* Uploads over a database whose statements may fail.
UploadStatusNext ==
  \/ \E u \in Uploaders, a \in CacheAccounts, ms \in CsvInputs : UploadStart(u, a, ms)
  \/ \E u \in Uploaders : UploadInsert(u)
  \/ \E u \in Uploaders : UploadAbort(u)
  \/ \E u \in Uploaders, recorded \in BOOLEAN : UploadCompleteFails(u, recorded)
  \/ \E u \in Uploaders : UploadAbortUnrecorded(u)
  \/ \E u \in Uploaders : UploadKeys(u, TRUE)
  \/ \E u \in Uploaders : UploadRespond(u)

(***************************************************************************)
(* POST /auth/signup: routes/auth.ts and models/Account.ts.                *)
(***************************************************************************)
SignupClients == {"s1", "s2"}

\* Bodies of a signup: an email and a password of eight characters, or a
\* body that signupSchema refuses.
SignupBodies ==
  [email : {"e1", "e2"}, valid : {TRUE}] \cup {[email |-> "none", valid |-> FALSE]}

IdleSignup ==
  [pc |-> "idle", email |-> "none", http |-> 0, message |-> "none", account |-> 0]

SignupInit ==
  /\ accountsTable = <<>>
  /\ su = [s \in SignupClients |-> IdleSignup]

\* SELECT * FROM accounts WHERE email = $1
FindByEmail(email) == {i \in 1..Len(accountsTable) : accountsTable[i].email = email}

\* The request arrives: signupSchema.parse(req.body); a ZodError is
\* answered 400.
SignupStart(s, body) ==
  /\ su[s].pc = "idle"
  /\ su' = [su EXCEPT ![s] =
       IF body.valid
         THEN [IdleSignup EXCEPT !.pc = "find", !.email = body.email]
         ELSE [IdleSignup EXCEPT !.pc = "done", !.http = 400,
                                 !.message = "Validation error"]]
  /\ UNCHANGED accountsTable
  /\ UNCHANGED notSignupVars

\* await AccountModel.findByEmail(email): an existing account is answered
\* 409.
SignupFind(s) ==
  /\ su[s].pc = "find"
  /\ su' = [su EXCEPT ![s] =
       IF FindByEmail(su[s].email) # {}
         THEN [@ EXCEPT !.pc = "done", !.http = 409,
                        !.message = "Email already registered"]
         ELSE [@ EXCEPT !.pc = "create"]]
  /\ UNCHANGED accountsTable
  /\ UNCHANGED notSignupVars

\* await AccountModel.create(...): the INSERT.  email is UNIQUE: with a row
\* of the same email in the table the INSERT throws the error of the
\* database, which the catch block hands to next(error); the route sends no
\* answer of its own (http 0).  Otherwise the account is created, 201.
SignupCreate(s) ==
  /\ su[s].pc = "create"
  /\ IF FindByEmail(su[s].email) # {}
       THEN /\ su' = [su EXCEPT ![s].pc = "done",
                                ![s].message = "duplicate key value violates unique constraint"]
            /\ UNCHANGED accountsTable
       ELSE /\ accountsTable' = Append(accountsTable, [email |-> su[s].email, tier |-> "free"])
            /\ su' = [su EXCEPT ![s].pc = "done", ![s].http = 201,
                                ![s].message = "success",
                                ![s].account = Len(accountsTable) + 1]
  /\ UNCHANGED notSignupVars

\* The client has its answer.
SignupDone(s) ==
  /\ su[s].pc = "done"
  /\ su' = [su EXCEPT ![s] = IdleSignup]
  /\ UNCHANGED accountsTable
  /\ UNCHANGED notSignupVars

SignupNext ==
  \/ \E s \in SignupClients, body \in SignupBodies : SignupStart(s, body)
  \/ \E s \in SignupClients : SignupFind(s)
  \/ \E s \in SignupClients : SignupCreate(s)
  \/ \E s \in SignupClients : SignupDone(s)

(***************************************************************************)
(* The PDF viewer: components/PdfViewerModal.tsx.                          *)
(***************************************************************************)
MaxPages == 15       \* pages of a PDF

\* The state of a modal as it mounts, and the values kept while none is.
ViewerInit ==
  /\ modalOpen = FALSE
  /\ pdfFile = 0
  /\ pdfDoc = 0
  /\ currentPage = 1
  /\ totalPages = 0
  /\ isLoading = TRUE
  /\ error = "none"

\* An updater that turns the page without looking at the number of pages.
NextPageUnbounded(prev, total) == prev + 1

\* setCurrentPage(prev => (prev > 1 ? prev - 1 : prev))
PrevPage(prev) == IF prev > 1 THEN prev - 1 ELSE prev

\* setCurrentPage(prev => (prev < totalPages ? prev + 1 : prev))
NextPage(prev, total) == IF prev < total THEN prev + 1 ELSE prev

\* A card is clicked: the modal mounts for its file and loadPdf starts.
OpenModal(pages) ==
  /\ ~modalOpen
  /\ modalOpen' = TRUE
  /\ pdfFile' = pages
  /\ pdfDoc' = 0
  /\ currentPage' = 1
  /\ totalPages' = 0
  /\ isLoading' = TRUE
  /\ error' = "none"
  /\ UNCHANGED notViewerVars

\* loadPdf: the document is there; setPdfDoc, setTotalPages(pdf.numPages),
\* setCurrentPage(1), and isLoading falls in the finally block.
LoadPdfResolved ==
  /\ modalOpen /\ isLoading
  /\ pdfFile >= 1
  /\ pdfDoc' = pdfFile
  /\ totalPages' = pdfFile
  /\ currentPage' = 1
  /\ isLoading' = FALSE
  /\ UNCHANGED <<modalOpen, pdfFile, error>>
  /\ UNCHANGED notViewerVars

\* loadPdf: waitForPdfJs or getDocument rejects; the catch block sets the
\* error.
LoadPdfRejected ==
  /\ modalOpen /\ isLoading
  /\ error' = "Failed to load PDF document."
  /\ isLoading' = FALSE
  /\ UNCHANGED <<modalOpen, pdfFile, pdfDoc, currentPage, totalPages>>
  /\ UNCHANGED notViewerVars

goToPrevPage ==
  /\ currentPage' = PrevPage(currentPage)
  /\ UNCHANGED <<modalOpen, pdfFile, pdfDoc, totalPages, isLoading, error>>
  /\ UNCHANGED notViewerVars

goToNextPage ==
  /\ currentPage' = NextPage(currentPage, totalPages)
  /\ UNCHANGED <<modalOpen, pdfFile, pdfDoc, totalPages, isLoading, error>>
  /\ UNCHANGED notViewerVars

\* onClose: App clears selectedPdf and the modal unmounts.
CloseModal ==
  /\ modalOpen
  /\ modalOpen' = FALSE
  /\ pdfFile' = 0
  /\ pdfDoc' = 0
  /\ currentPage' = 1
  /\ totalPages' = 0
  /\ isLoading' = TRUE
  /\ error' = "none"
  /\ UNCHANGED notViewerVars

\* The buttons are drawn once the document is loaded without an error and
\* has more than one page.
ButtonsShown == ~isLoading /\ error = "none" /\ totalPages > 1

\* The Previous page button, disabled on the first page.
ClickPrev ==
  /\ modalOpen /\ ButtonsShown
  /\ ~(currentPage <= 1)
  /\ goToPrevPage

\* The Next page button, disabled on the last page.
ClickNext ==
  /\ modalOpen /\ ButtonsShown
  /\ ~(currentPage >= totalPages)
  /\ goToNextPage

\* handleKeyDown, the listener of the window while the modal is mounted.
HandleKeyDown(key) ==
  /\ modalOpen
  /\ CASE key = "Escape" -> CloseModal
       [] key = "ArrowLeft" -> goToPrevPage
       [] key = "ArrowRight" -> goToNextPage
       [] OTHER -> UNCHANGED vars

Keys == {"Escape", "ArrowLeft", "ArrowRight", "Enter"}

ViewerNext ==
  \/ \E pages \in 0..MaxPages : OpenModal(pages)
  \/ LoadPdfResolved
  \/ LoadPdfRejected
  \/ ClickPrev
  \/ ClickNext
  \/ \E key \in Keys : HandleKeyDown(key)
  \/ CloseModal

(***************************************************************************)
(* waitForPdfJs: components/PdfViewerModal.tsx.                            *)
(***************************************************************************)
MaxRetries == 100
RetryDelayMs == 50

WaitInit ==
  /\ pdfjsLib = FALSE
  /\ promise = "none"
  /\ retries = 0
  /\ timer = FALSE
  /\ elapsed = 0
  /\ settles = 0

\* A test that allows one retry more.
CanRetryOnceMore(n) == n <= MaxRetries

\* retries < maxRetries
CanRetry(n) == n < MaxRetries

\* check(), run by a call of waitForPdfJs whose promise is p; of the calls
\* of resolve and reject only the first settles the promise.
Check(p) ==
  IF pdfjsLib
    THEN /\ promise' = IF p = "pending" THEN "resolved" ELSE p
         /\ settles' = settles + 1
         /\ timer' = FALSE
         /\ UNCHANGED retries
  ELSE IF CanRetry(retries)
    THEN /\ retries' = retries + 1
         /\ timer' = TRUE
         /\ promise' = p
         /\ UNCHANGED settles
  ELSE /\ promise' = IF p = "pending" THEN "rejected" ELSE p
       /\ settles' = settles + 1
       /\ timer' = FALSE
       /\ UNCHANGED retries

\* waitForPdfJs(): the promise is created and check() runs at once.
CallWaitForPdfJs ==
  /\ promise = "none"
  /\ Check("pending")
  /\ UNCHANGED <<pdfjsLib, elapsed>>
  /\ UNCHANGED notWaitVars

\* The timeout of setTimeout(check, 50) fires.
TimerFires ==
  /\ timer
  /\ elapsed' = elapsed + RetryDelayMs
  /\ Check(promise)
  /\ UNCHANGED pdfjsLib
  /\ UNCHANGED notWaitVars

\* The script of pdf.js has run and set window.pdfjsLib.
ScriptLoads ==
  /\ ~pdfjsLib
  /\ pdfjsLib' = TRUE
  /\ UNCHANGED <<promise, retries, timer, elapsed, settles>>
  /\ UNCHANGED notWaitVars

WaitNext ==
  \/ CallWaitForPdfJs
  \/ TimerFires
  \/ ScriptLoads

\* The four premium routes side by side, with one job and few request values.
GateNext ==
  \/ \E a \in Accounts : RunAttribution(a, FALSE, MaxStatusJobs, MaxTime)
  \/ \E w \in Workers : ClaimNext(w)
  \/ \E w \in Workers : WorkerFinish(w)
  \/ \E caller \in Accounts, id \in 1..(MaxStatusJobs + 1) : ApiGet(caller, id)
  \/ \E caller \in Accounts, q \in {Absent, Supplied(<<"9">>)}, ml \in MlOutcomes :
        Forecast(caller, q, ml)
  \/ \E caller \in Accounts, budget \in {JsonNumber(7), JsonNumber(0)},
        ml \in MlOutcomes : Optimize(caller, budget, ml)
  \/ ApiDone

\* The Optimizer page of any account submits, with the ML service up or down.
OptimizerNext ==
  \/ \E caller \in Accounts, budget \in BudgetTexts, mins \in SpendInputs,
        maxs \in SpendInputs, ml \in {"up", "down"}, hasAttribution \in BOOLEAN :
        CallOptimizer(caller, budget, mins, maxs, ml, hasAttribution)
  \/ FnDone

\* The fields of the Optimizer page are edited and the form is submitted.
OptimizerPageNext ==
  \/ \E channel \in PageChannels, text \in ConstraintTexts :
        EditMinSpend(channel, text)
  \/ \E channel \in PageChannels, text \in ConstraintTexts :
        EditMaxSpend(channel, text)
  \/ \E budget \in BudgetTexts \ {<<>>} : SubmitOptimizer(budget)
  \/ FnDone

\* Uploads of a free and a premium account with the large CSVs.  No summary
\* is read, so the cache stays empty and the invalidation deletes nothing.
FreeTierNext ==
  \/ \E u \in Uploaders, a \in CacheAccounts, ms \in FreeTierCsvInputs :
        UploadStart(u, a, ms)
  \/ \E u \in Uploaders : UploadInsert(u)
  \/ \E u \in Uploaders : UploadKeys(u, TRUE)
  \/ \E u \in Uploaders : UploadRespond(u)

\* Two accounts upload and read their summaries and upload records, and
\* ask for each other's.  The premium account asks for the 90 days that the
\* free account is given.
IsolationNext ==
  \/ CacheNext({TRUE}, {"r1"}, {"u1"}, {"summary"},
               CacheAccounts, {Supplied(<<"9", "0">>)}, CsvInputs)
  \/ \E caller \in CacheAccounts, id \in 1..(MaxUploads + 1) :
        GetUpload("r2", caller, id)
  \/ ReadDone("r2")

Init == JobsInit /\ ApiInit /\ CacheInit /\ FnInit /\ PageInit /\ ShowcaseInit
        /\ MapInit /\ SignupInit /\ ViewerInit
        /\ WaitInit

SpecJobs == Init /\ [][JobsNext]_vars

SpecStatus == Init /\ [][StatusNext]_vars

SpecApi == Init /\ [][ApiNext]_vars

SpecCache ==
  Init /\ [][CacheNext(BOOLEAN, {"r1"}, {"u1"}, {"summary", "middleware"},
                       CacheAccounts, {Absent}, CsvInputs)]_vars

SpecCacheUp ==
  Init /\ [][CacheNext({TRUE}, Readers, Uploaders, {"summary"},
                       {"a1"}, DaysInputs, CsvInputs)]_vars

SpecMetrics == Init /\ [][MetricsNext]_vars

SpecValidation == Init /\ [][ValidationNext]_vars

SpecGate == Init /\ [][GateNext]_vars

SpecIsolation == Init /\ [][IsolationNext]_vars

SpecFreeTier == Init /\ [][FreeTierNext]_vars

SpecOptimizer == Init /\ [][OptimizerNext]_vars

SpecOptimizerPage == Init /\ [][OptimizerPageNext]_vars

SpecShowcase == Init /\ [][ShowcaseNext]_vars

SpecChannels == Init /\ [][ChannelNext]_vars

SpecPartial == Init /\ [][PartialNext]_vars

SpecRowLimit == Init /\ [][RowLimitNext]_vars

SpecUploadStatus == Init /\ [][UploadStatusNext]_vars

SpecSignup == Init /\ [][SignupNext]_vars

SpecViewer == Init /\ [][ViewerNext]_vars

\* The browser fires a timeout that is due.
LiveWait == Init /\ [][WaitNext]_vars /\ WF_vars(TimerFires)

\* The clock and the pollers are scheduled: the page refetches on a timer and
\* time passes. Nothing is assumed of the workers.
LiveJobs ==
  /\ Init /\ [][JobsSteps(MaxStatusJobs, MaxTime)]_vars
  /\ WF_vars(Tick(MaxTime))
  /\ \A a \in Accounts : WF_vars(Poll(a))

(***************************************************************************)
(* Claims about the attribution jobs.                                      *)
(***************************************************************************)
\* C1: a status read by a caller who passes the premium gate and is not the
\* owner of the job it names is answered NotFound (404): it is told neither
\* the job's status nor its result.
C1_NonOwnerGetsNotFound ==
  (/\ lastResp.op = "get"
   /\ Tier(lastResp.caller) = "premium"
   /\ Exists(lastResp.id)
   /\ jobs[lastResp.id].account # lastResp.caller)
  => lastResp.http = 404

AllowedMoves ==
  {<<"pending", "processing">>, <<"processing", "completed">>,
   <<"processing", "failed">>}

\* C2: a job's stored status moves only pending -> processing -> completed or
\* failed, and a job that is completed or failed keeps its status, result and
\* error through every later complete and fail call.
C2_TerminalIsFinal ==
  [][\A id \in 1..Len(jobs) :
       /\ jobs'[id].status # jobs[id].status =>
            <<jobs[id].status, jobs'[id].status>> \in AllowedMoves
       /\ jobs[id].status \in Terminal =>
            /\ jobs'[id].status = jobs[id].status
            /\ jobs'[id].result = jobs[id].result
            /\ jobs'[id].error = jobs[id].error]_vars

\* A finished job has received a second completion signal.
C2_Witness ==
  \E id \in 1..Len(jobs) :
    /\ jobs[id].status = "completed"
    /\ lastResp.op = "signal"
    /\ lastResp.id = id

\* C3: no two workers hold the same job at the same time, and a job a worker
\* holds is processing.
C3_OneWorkerPerJob ==
  \A w1 \in Workers :
    holding[w1] # 0 =>
      /\ jobs[holding[w1]].status = "processing"
      /\ \A w2 \in Workers \ {w1} : holding[w2] # holding[w1]

\* Two workers have claimed while two jobs were queued: each holds its own.
C3_Witness ==
  \A w \in Workers : holding[w] # 0

IsIntegerText(s) == s # <<>> /\ ~StringToNumber(s).nan /\ Trim(s) = s

\* C6: a forecast request that supplies a horizon outside [7, 90] is answered
\* 400 and nothing is sent to the ML service; one that supplies a horizon
\* inside [7, 90] has that horizon sent on unchanged.
C6_HorizonRangeEnforced ==
  (/\ apiReq.op = "forecast"
   /\ Tier(apiReq.caller) = "premium"
   /\ apiReq.horizon.present
   /\ IsIntegerText(apiReq.horizon.text))
  => LET h == StringToNumber(apiReq.horizon.text).val IN
     IF h < MinHorizon \/ h > MaxHorizon
       THEN apiResp.http = 400 /\ ~apiResp.call.called
       ELSE apiResp.call.called /\ apiResp.call.horizon = h

\* C7: an optimizer request is sent on to the ML service only if its budget
\* is a number greater than 0; with a budget that is missing, not a number,
\* zero or negative it is answered 400.
C7_BudgetValidated ==
  (apiReq.op = "optimize" /\ Tier(apiReq.caller) = "premium")
  => IF apiReq.budget.t = "number" /\ apiReq.budget.n > 0
       THEN apiResp.call.called /\ apiResp.call.budget = apiReq.budget
       ELSE apiResp.http = 400 /\ ~apiResp.call.called

\* C8: every stored attribution result has an expiration, and a status read
\* answered from the store carries a row of the caller's account whose
\* expiration lies in the future.
C8_NoExpiredResultReturned ==
  /\ \A row \in results : row.has_expiry
  /\ (lastResp.op = "get" /\ lastResp.path = "stored") =>
       \E row \in results :
         /\ RowData(row) = lastResp.data
         /\ row.id = lastResp.id
         /\ row.account_id = lastResp.caller
         /\ row.expires_at > now

\* The owner has read a result whose expiration has passed, and was not
\* answered from the store.
C8_Witness ==
  \E row \in results :
    /\ row.expires_at <= now
    /\ lastResp.op = "get"
    /\ lastResp.id = row.id
    /\ lastResp.caller = row.account_id
    /\ lastResp.path # "stored"

\* C9: a Redis failure never fails the request.  On a Redis error getCached
\* answers null (a miss, nothing thrown) and setCached returns leaving the
\* cache as it was; and a GET of /data/summary, or of a route behind
\* cacheMiddleware, that met a Redis error still answers 200 with the data
\* it has just read from the database.
C9_CacheFailureNeverFailsRequest ==
  /\ \A key \in CacheKeys :
       /\ ~GetCached(key, FALSE).threw
       /\ ~GetCached(key, FALSE).hit
       /\ SetCached(key, NoSummary, FALSE) = cache
  /\ \A r \in Readers :
       (rd[r].pc = "done" /\ rd[r].cacheFailed) =>
         /\ rd[r].http = 200
         /\ rd[r].source = "db"
         /\ rd[r].body = rd[r].data
         /\ rd[r].body.asOf >= rd[r].startAcked

\* A request that met a Redis error has been answered with uploaded rows,
\* after an upload was answered success, while its key is in the cache.
C9_Witness ==
  \E r \in Readers :
    /\ rd[r].pc = "done"
    /\ rd[r].cacheFailed
    /\ rd[r].startAcked > 0
    /\ rd[r].body.series # {}
    /\ Cached(rd[r].key) # {}

\* C10: a GET of /data/summary that starts after an upload of the account
\* has answered success is answered with a summary read at or after that
\* upload's commit, never with an older one.
C10_SummaryReflectsAckedUpload ==
  \A r \in Readers :
    (rd[r].pc = "done" /\ rd[r].kind = "summary" /\ rd[r].http = 200) =>
      rd[r].body.asOf >= rd[r].startAcked


(***************************************************************************)
(* Claims about the metrics store and the upload route.                    *)
(***************************************************************************)
SameKey(r, m) == r.date = m.date /\ r.channel = m.channel

\* The last row of a CSV that has the key of row m.
LastRowFor(ms, m) ==
  ms[CHOOSE i \in 1..Len(ms) :
       /\ SameKey(ms[i], m)
       /\ \A j \in (i + 1)..Len(ms) : ~SameKey(ms[j], m)]

KeysUnique ==
  \A a \in CacheAccounts : \A r, m \in metrics[a] : SameKey(r, m) => r = m

\* The commit of uploader u leaves, for each key of its CSV, the last row of
\* the CSV with that key, and leaves the records of other keys alone.
LastRowWins(u) ==
  (up[u].pc = "insert" /\ up'[u].pc = "keys") =>
    LET a == up[u].account
        ms == up[u].rows
    IN /\ \A i \in 1..Len(ms) : LastRowFor(ms, ms[i]) \in metrics'[a]
       /\ \A r \in metrics'[a] :
            \/ \E i \in 1..Len(ms) : SameKey(r, ms[i])
            \/ r \in metrics[a]
       /\ \A r \in metrics[a] :
            \/ \E i \in 1..Len(ms) : SameKey(r, ms[i])
            \/ r \in metrics'[a]

\* C11: the metrics store never holds two records with one (account, date,
\* channel), and after an upload commits, the record of each key of its CSV
\* carries the values of the last row of the CSV with that key.
C11_OneRecordPerKeyLastWins ==
  /\ []KeysUnique
  /\ [][\A u \in Uploaders : LastRowWins(u)]_vars


\* The cell holds a numeral: it is there, it is not blank, and it reads as a
\* number.
IsNumberCell(cell) ==
  cell.present /\ Trim(cell.text) # <<>> /\ ~StringToNumber(cell.text).nan

\* C12: csvRowSchema accepts a record only if its date has the form
\* YYYY-MM-DD, its channel is not empty and its spend is a number >= 0; it
\* accepts a record that is well formed, with or without the optional
\* columns; and every metric the upload route pushes for bulkInsert has a
\* date of that form and a spend >= 0.
C12_RowSchemaSound ==
  fnCall.fn = "csvRowSchema" =>
    LET r == fnCall.record
        wellFormed ==
          /\ DateForm(r.date)
          /\ r.channel # <<>>
          /\ IsNumberCell(r.spend) /\ StringToNumber(r.spend.text).val >= 0
    IN /\ fnCall.out.success => wellFormed
       /\ (/\ wellFormed
           /\ r.revenue.present =>
                (IsNumberCell(r.revenue) /\ StringToNumber(r.revenue.text).val >= 0))
          => fnCall.out.success
       /\ fnCall.pushed =>
            (DateForm(fnCall.out.date) /\ fnCall.out.spend.val >= 0)

\* What a request refused at the premium gate leaves behind: the answer of
\* the attribution routes records no read of stored results and no call of
\* the ML service, and no job was created or queued.
GateHeld ==
  /\ lastResp'.http = 403 /\ lastResp'.path = "gate"
  /\ jobs' = jobs /\ queue' = queue /\ results' = results

\* C15: a request of a caller whose tier is not premium to attribution run,
\* attribution status, forecast or optimizer is answered 403, and it causes
\* no call of the ML service and no read of the attribution results.
C15_PremiumGate ==
  /\ [][(lastResp'.op \in {"run", "get"} /\ Tier(lastResp'.caller) # "premium")
          => GateHeld]_vars
  /\ [](apiReq # NoRequest /\ Tier(apiReq.caller) # "premium"
          => apiResp.http = 403 /\ ~apiResp.call.called)

\* A free caller has been refused on a status read of a job whose result is
\* stored, and a free caller's forecast request has been refused while the
\* ML service was there to answer.
C15_Witness ==
  /\ /\ lastResp.op = "get" /\ Tier(lastResp.caller) # "premium"
     /\ lastResp.http = 403
     /\ \E row \in results : row.id = lastResp.id
  /\ /\ apiReq.op = "forecast" /\ Tier(apiReq.caller) # "premium"
     /\ apiResp.http = 403

\* C16: GET /uploads/:id and GET /data/summary answer a caller only with
\* records of the caller's account: an upload record of another account is
\* answered 404, and a summary, cached or not, is the caller's own.
C16_AccountIsolation ==
  \A r \in Readers :
    rd[r].pc = "done" =>
      /\ rd[r].http = 200 /\ rd[r].kind # "upload" =>
           rd[r].body.account = rd[r].caller
      /\ rd[r].upload # 0 => uploads[rd[r].upload].account_id = rd[r].caller
      /\ rd[r].kind = "upload" /\ rd[r].http # 404 => rd[r].upload # 0

\* An account has been answered 404 while the other account's upload record
\* exists, and an account is served its summary from the cache while the
\* cache also holds the other account's.
C16_Witness ==
  /\ \E r \in Readers :
       /\ rd[r].pc = "done" /\ rd[r].kind = "upload" /\ rd[r].http = 404
       /\ uploads # <<>>
       /\ \A i \in 1..Len(uploads) : uploads[i].account_id # rd[r].caller
  /\ \E r \in Readers :
       /\ rd[r].pc = "done" /\ rd[r].source = "cache"
       /\ \E e \in cache : /\ e.value.account # rd[r].caller
                            /\ e.key.days = rd[r].key.days

\* C17: over any sequence of uploads of one month a free account has at most
\* 500 rows accepted: the rows stored for it never number more than 500.
C17_FreeTierRowLimit ==
  \A a \in CacheAccounts :
    Tier(a) = "free" => Cardinality(metrics[a]) <= MaxDataRows

\* C18: a free account never has data stored for more than 5 distinct
\* channels.
C18_FreeTierChannelLimit ==
  \A a \in CacheAccounts :
    Tier(a) = "free" =>
      Cardinality({r.channel : r \in metrics[a]}) <= MaxChannels

\* C13: validateMinimumDataDays is valid exactly when the list holds at
\* least 60 different dates, and when it is not valid its error mentions 60.
C13_SixtyUniqueDays ==
  fnCall.fn = "validateMinimumDataDays" =>
    LET days == {fnCall.dates[i] : i \in 1..Len(fnCall.dates)} IN
    /\ fnCall.out.valid <=> Cardinality(days) >= 60
    /\ ~fnCall.out.valid =>
         fnCall.out.error \in
           {"Minimum 60 days of data required for attribution",
            "Minimum 60 unique days of data required"}

\* A list of 60 or more dates with fewer than 60 different days among them
\* has been refused.
C13_Witness ==
  /\ fnCall.fn = "validateMinimumDataDays"
  /\ Len(fnCall.dates) >= 60
  /\ Cardinality({fnCall.dates[i] : i \in 1..Len(fnCall.dates)}) = 59
  /\ ~fnCall.out.valid

\* C14: validateDateRange is valid exactly when the date parses to an
\* instant that is not after the current time and not more than maxDaysBack
\* days before it; a later date is refused as being in the future, an
\* earlier one is refused, and a text that does not parse is refused as
\* 'Invalid date format'.
C14_DateRangeExact ==
  fnCall.fn = "validateDateRange" =>
    LET t == ParseDate(fnCall.date)
        age == fnCall.clock - t.val
    IN /\ fnCall.out.valid <=>
            (~t.nan /\ age >= 0 /\ age <= HalfDaysPerDay * fnCall.maxDaysBack)
       /\ t.nan => fnCall.out.error = "Invalid date format"
       /\ (~t.nan /\ age < 0) => fnCall.out.error = "Date cannot be in the future"
       /\ (~t.nan /\ age > HalfDaysPerDay * fnCall.maxDaysBack) =>
            /\ ~fnCall.out.valid
            /\ fnCall.out.error = "Date must be within last days"

\* At midday, the day that lies exactly maxDaysBack days before today has
\* been refused: its midnight is more than maxDaysBack days ago.
C14_Witness ==
  /\ fnCall.fn = "validateDateRange"
  /\ fnCall.maxDaysBack = FreeDaysBack
  /\ ~ParseDate(fnCall.date).nan
  /\ fnCall.clock - ParseDate(fnCall.date).val = HalfDaysPerDay * FreeDaysBack + 1
  /\ ~fnCall.out.valid



C20_UnavailableDistinct ==
  /\ (/\ lastResp.op = "get" /\ lastResp.path = "ml"
      /\ MlGetStatus(lastResp.id).http # 200)
       => /\ MlUnreachable.http = 502
          /\ <<lastResp.http, lastResp.status>>
               # <<MlUnreachable.http, MlUnreachable.status>>
  /\ apiResp.call.called
       => /\ Forwarded(apiResp.call, "down").http = 502
          /\ <<Forwarded(apiResp.call, "down").http,
               Forwarded(apiResp.call, "down").status>>
               # <<Forwarded(apiResp.call, "rejects").http,
                   Forwarded(apiResp.call, "rejects").status>>

(***************************************************************************)
(* Claims about the pages.                                                 *)
(***************************************************************************)
\* C21: the Attribution page reads the status of its job on a timer of 2
\* seconds while the status it last saw is not completed or failed; it reads
\* no status while it has no job id; and once it has seen completed or
\* failed for a job it reads that job no more, so what it shows stays.
C21_PollingStopsAtTerminal ==
  /\ [](\A a \in Accounts :
          /\ (pageJob[a] # 0 /\ observed[a] \notin Terminal) =>
               RefetchInterval(observed[a]) = 2000
          /\ observed[a] \in Terminal => ~RefetchActive(a)
          /\ pageJob[a] = 0 => ~RefetchActive(a))
  /\ [][\A a \in Accounts :
          /\ (lastResp'.op = "get" /\ lastResp'.caller = a) =>
               (pageJob[a] # 0 /\ observed[a] \notin Terminal)
          /\ (observed[a] \in Terminal /\ pageJob'[a] = pageJob[a]) =>
               observed'[a] = observed[a]]_vars

\* A page has just read the status that ended its polling, while the page of
\* another account has no job and reads nothing.
C21_Witness ==
  \E a \in Accounts :
    /\ lastResp.op = "get" /\ lastResp.caller = a
    /\ observed[a] \in Terminal
    /\ \E b \in Accounts \ {a} : pageJob[b] = 0

\* C22: the constraints the Optimizer page posts carry an upper bound for a
\* channel only if a number stands in the channel's maximum field, and a
\* lower bound other than 0 only if a number stands in its minimum field,
\* whatever edits came before.
C22_BoundsOnlyWhenEntered ==
  fnCall.fn = "submit" =>
    \A ch \in PageChannels :
      /\ (/\ fnCall.body.constraints.has_max
          /\ ch \in DOMAIN fnCall.body.constraints.max_spend)
           => /\ ch \in DOMAIN fnCall.maxSpend
              /\ ~ParseFloat(fnCall.maxSpend[ch]).nan
      /\ (/\ fnCall.body.constraints.has_min
          /\ ch \in DOMAIN fnCall.body.constraints.min_spend
          /\ fnCall.body.constraints.min_spend[ch] # 0)
           => /\ ch \in DOMAIN fnCall.minSpend
              /\ ~ParseFloat(fnCall.minSpend[ch]).nan

\* C23: while App is mounted, no PDF of the list has an object URL that was
\* revoked.
C23_ListedUrlsLive ==
  mounted => Urls(pdfs) \cap revoked = {}

(***************************************************************************)
(* Claims about uploads and accounts.                                      *)
(***************************************************************************)
\* The mappings of the account whose raw_name equals the channel up to
\* letter case and surrounding white space.
MappingsFor(accountId, rawChannel) ==
  {m \in channelMap :
     /\ m.account_id = accountId
     /\ ToLowerCase(Trim(m.raw_name)) = ToLowerCase(Trim(rawChannel))}

\* The name of a channel for an account without mappings of its own.
WithoutMappings(rawChannel) ==
  IF Str(ToLowerCase(Trim(rawChannel))) \in DOMAIN CHANNEL_MAP
    THEN CHANNEL_MAP[Str(ToLowerCase(Trim(rawChannel)))]
    ELSE DefaultChannel(rawChannel)

\* C24: normalizeChannel gives a row whose channel equals the raw_name of a
\* saved mapping of its account, up to letter case and surrounding white
\* space, the normalized_name of that mapping, before the global map and the
\* default capitalisation; the mappings of other accounts change nothing.
C24_CustomMappingApplied ==
  fnCall.fn = "normalizeChannel" =>
    IF MappingsFor(fnCall.accountId, fnCall.rawChannel) # {}
      THEN fnCall.result \in
             {m.normalized_name :
                m \in MappingsFor(fnCall.accountId, fnCall.rawChannel)}
      ELSE fnCall.result = WithoutMappings(fnCall.rawChannel)

\* The records of the request of an uploader that pass the schema and the
\* date range, by their place in the CSV.
ValidRecords(u) ==
  {i \in 1..Len(up[u].records) :
     RowPushed(up[u].records[i], Tier(up[u].account), UploadClock)}

ValidMetrics(u) ==
  LET valid == SelectSeq(up[u].records,
                 LAMBDA record : RowPushed(record, Tier(up[u].account), UploadClock))
  IN [i \in 1..Len(valid) |-> MetricOf(up[u].account, valid[i])]

ErrorsNaming(u, row) ==
  Cardinality({j \in 1..Len(up[u].errors) : up[u].errors[j].row = row})

PartialAnswered(u) ==
  up[u].account # "none" =>
    /\ \A i \in 1..Len(up[u].records) :
         ErrorsNaming(u, (i - 1) + 2) = IF i \in ValidRecords(u) THEN 0 ELSE 1
    /\ up[u].http = 400 => ValidRecords(u) = {}
    /\ up[u].pc # "idle" => Len(up[u].rows) = Cardinality(ValidRecords(u))

PartialStored(u) ==
  /\ (up[u].pc = "insert" /\ up'[u].pc = "keys")
       => metrics'[up[u].account]
            = BulkInsert(metrics[up[u].account], ValidMetrics(u))
  /\ (up[u].pc = "idle" /\ up'[u].http = 400)
       => UNCHANGED <<metrics, uploads>>

C26_RowLimitCountsDataRows ==
  fnCall.fn = "freeTierCheck" =>
    (fnCall.http = 403
       <=> fnCall.tier = "free" /\ RecordCount(fnCall.text) > MaxDataRows)

\* The request that created the upload record has been answered.
UploadAnswered(i) ==
  \A u \in Uploaders : up[u].pc = "idle" \/ up[u].upload # i

\* C27: an upload record is completed only if the rows of its upload were
\* committed, failed only if none was committed, and then it carries an
\* error_message; once its request is answered, with success or an error,
\* the record is no longer processing.
C27_UploadStatusSettled ==
  \A i \in 1..Len(uploads) :
    /\ uploads[i].status \in {"processing", "completed", "failed"}
    /\ uploads[i].status = "completed" => uploads[i].committed
    /\ uploads[i].status = "failed"
         => ~uploads[i].committed /\ uploads[i].error_message # "none"
    /\ UploadAnswered(i) => uploads[i].status # "processing"

\* C28: no two accounts have the same email, and a signup that ends without
\* an account of its own, for an email that is registered, has been answered
\* 409 'Email already registered'.
C28_SignupConflict ==
  /\ \A i, j \in 1..Len(accountsTable) :
       accountsTable[i].email = accountsTable[j].email => i = j
  /\ \A s \in SignupClients :
       (su[s].pc = "done" /\ su[s].account = 0 /\ FindByEmail(su[s].email) # {})
         => su[s].http = 409 /\ su[s].message = "Email already registered"

(***************************************************************************)
(* Claims about the PDF viewer.                                            *)
(***************************************************************************)
PageInRange == totalPages >= 1 => (1 <= currentPage /\ currentPage <= totalPages)

PageTurns ==
  /\ (modalOpen /\ totalPages >= 1 /\ currentPage = 1
        /\ (ClickPrev \/ HandleKeyDown("ArrowLeft"))) => currentPage' = 1
  /\ (modalOpen /\ totalPages >= 1 /\ currentPage = totalPages
        /\ (ClickNext \/ HandleKeyDown("ArrowRight"))) => currentPage' = totalPages
  /\ LoadPdfResolved => currentPage' = 1

\* C29: while a document of N >= 1 pages is loaded, currentPage stays
\* between 1 and N whatever next and previous actions are taken; previous
\* on page 1 and next on page N leave the page as it is, and a document
\* that has been loaded is on page 1.
C29_PageInRange ==
  /\ []PageInRange
  /\ [][PageTurns]_vars

\* The last page of a document of several pages, reached by turning pages.
C29_Witness ==
  modalOpen /\ totalPages >= 3 /\ currentPage = totalPages

WaitSettledOnce ==
  /\ settles <= 1
  /\ settles = 1 <=> promise \in {"resolved", "rejected"}
  /\ promise = "resolved" => pdfjsLib
  /\ promise = "rejected"
       => retries = MaxRetries /\ elapsed = MaxRetries * RetryDelayMs
  /\ promise \in {"resolved", "rejected"} => ~timer
  /\ promise = "pending" => timer
  /\ elapsed = RetryDelayMs * (IF timer THEN retries - 1 ELSE retries)

\* C30: the promise of waitForPdfJs settles exactly once: it is resolved by
\* a check that finds window.pdfjsLib, rejected after 100 retries 50 ms
\* apart, a pending promise has its next check scheduled and settles in the
\* end, and no check is scheduled once it is settled.
C30_WaitSettlesOnce ==
  /\ []WaitSettledOnce
  /\ (promise = "pending") ~> (promise \in {"resolved", "rejected"})

\* The promise is rejected, the library never having appeared.
C30_Witness ==
  promise = "rejected" /\ ~pdfjsLib /\ retries = MaxRetries

====
